---------------------------- MODULE Spec2Model ----------------------------
(***************************************************************************)
(* A model of the multipass cryptographic core: the BBS+-style signature   *)
(* (sign / verify_signature_safe), the selective-disclosure proof          *)
(* (create_proof / verify_proof_safe), the linkage tag, delegation tokens, *)
(* Shamir secret sharing, device attestation, the periwinkle entropy       *)
(* harvester and the k-anonymity miner engine, the last two also with      *)
(* several threads that take the statements of a call one at a time.       *)
(*                                                                         *)
(* Representation.  The pairing groups G1, G2, GT have the prime order of  *)
(* the scalar field, so a point is represented by its discrete logarithm   *)
(* to the group generator and the pairing e(a*g1, b*g2) by a*b.  A 32-byte *)
(* block is one cell holding a number below DigestSpace; a cell is the     *)
(* canonical encoding of a scalar exactly when it is below the field       *)
(* modulus, as for Scalar::from_bytes.  The modulus is kept at the same    *)
(* proportion of the cell space as the BLS12-381 scalar modulus is of      *)
(* 2^256 (a little under one half).  A byte string is a sequence of cells. *)
(***************************************************************************)
EXTENDS Integers, Sequences, FiniteSets, TLC

VARIABLES
    harvester,    \* periwinkle HARVESTER singleton: rng, avalanche_noise_pool, puf_root
    secret_key,   \* issuer secret key bytes handed to sign
    public_key,   \* issuer public key bytes: w || h0 || h1 || ...
    messages,     \* the message list handed to sign
    signature,    \* Result of sign (none before the call)
    last,         \* the most recent verifier call: its inputs and its Result
    tags,         \* two generate_linkage_tag calls: their inputs and their results
    ent,          \* calls of the entropy service: count, first secret per context, last call
    presentation, \* how the presented proof was made, and the inputs it was made for
    presented,    \* the proof bytes currently presented to the verifier
    accepted,     \* the first verify_proof_safe call that returned Ok(true)
    engine,       \* MinerEngine: buffers, vault, epsilon
    clock,        \* the UNIX time that current_timestamp reads
    since,        \* per category: identity hashes submitted since its previous release
    submits,      \* number of submit_macro_data calls made
    submitted,    \* the points handed to add_data_point, in call order
    released,     \* the batches submit_macro_data returned, in call order
    drains,       \* the submit_macro_data calls that flushed a buffer: category, ordinal
    threads,      \* per thread: the call it is in, its position and its locals
    lock,         \* the thread holding the lock (buffers or HARVESTER), 0 when free
    log           \* the harvests and draws made on the harvester, in order

vars == <<harvester, secret_key, public_key, messages, signature, last, tags, ent,
          presentation, presented, accepted, engine, clock, since, submits,
          submitted, released, drains, threads, lock, log>>

holder == <<presentation, presented, accepted>>
miner == <<engine, clock, since, submits, submitted, released, drains>>
sched == <<threads, lock, log>>

-----------------------------------------------------------------------------
(* Scalar field (bls12_381::Scalar) and its byte encoding                  *)

\* order of the scalar field and of G1, G2, GT
ScalarModulus == 13

\* number of values a 32-byte block takes in the model
DigestSpace == 32

Scalars == 0 .. (ScalarModulus - 1)
Cells == 0 .. (DigestSpace - 1)

Some(v) == [some |-> TRUE, val |-> v]
None == [some |-> FALSE, val |-> 0]

ZERO == 0
ONE == 1

SAdd(a, b) == (a + b) % ScalarModulus
SMul(a, b) == (a * b) % ScalarModulus
SNeg(a) == (ScalarModulus - a) % ScalarModulus
SSub(a, b) == SAdd(a, SNeg(b))

\* Scalar::invert: CtOption, none for zero
invert(a) ==
    IF a % ScalarModulus = 0 THEN None
    ELSE Some(CHOOSE x \in Scalars : (a * x) % ScalarModulus = 1)

\* Scalar::from_bytes: canonical decoding only
Scalar_from_bytes(cell) == IF cell < ScalarModulus THEN Some(cell) ELSE None

\* Scalar::to_bytes
Scalar_to_bytes(s) == s

\* Scalar::from_bytes_wide: 64 bytes (two cells, little-endian) reduced mod the order
Scalar_from_bytes_wide(buf) == (buf[1] + DigestSpace * buf[2]) % ScalarModulus

-----------------------------------------------------------------------------
(* G1, G2 and the pairing                                                  *)

\* G1Affine::from_compressed / G2Affine::from_compressed: a code below the
\* group order encodes the point with that discrete logarithm; other codes
\* are not on the curve
G1_from_compressed(code) == IF code < ScalarModulus THEN Some(code) ELSE None
G2_from_compressed(code) == IF code < ScalarModulus THEN Some(code) ELSE None
G1_to_compressed(p) == p
G2_to_compressed(p) == p

G1_generator == 1
G2_generator == 1
G1_identity == 0

PAdd(p, q) == (p + q) % ScalarModulus
PSub(p, q) == (p + ScalarModulus - q) % ScalarModulus
PMul(p, s) == (p * s) % ScalarModulus

\* bls12_381::pairing
pairing(p, q) == (p * q) % ScalarModulus

-----------------------------------------------------------------------------
(* SHA-256 and hash_to_scalar                                              *)

RECURSIVE Absorb(_, _)
Absorb(h, data) ==
    IF data = <<>> THEN h
    ELSE Absorb((h * 5 + Head(data) + 1) % DigestSpace, Tail(data))

\* Sha256::new().update(data).finalize(): one cell
Sha256(data) == (Absorb(11, data) * 3 + Len(data)) % DigestSpace

hash_to_scalar(data) ==
    LET opt == Scalar_from_bytes(Sha256(data))
    IN  IF opt.some THEN opt.val ELSE ONE


-----------------------------------------------------------------------------
(* Results                                                                 *)

Ok(v) == [ok |-> TRUE, val |-> v, err |-> "Ok"]
Err(e, v) == [ok |-> FALSE, val |-> v, err |-> e]

NoBytes == [len |-> 0]
IsOkTrue(r) == r.ok /\ r.val = TRUE
IsOkFalse(r) == r.ok /\ r.val = FALSE

-----------------------------------------------------------------------------
(* periwinkle.rs: the entropy harvester                                    *)

RECURSIVE Xor(_, _)
Xor(a, b) ==
    IF a = 0 /\ b = 0 THEN 0
    ELSE (((a % 2) + (b % 2)) % 2) + 2 * Xor(a \div 2, b \div 2)

\* u8::rotate_left(1), on a cell
rotate_left1(c) == ((2 * c) % DigestSpace) + ((2 * c) \div DigestSpace)

\* ChaCha20 keystream block of a seeded generator at a stream position
ChaCha20Block(seed, pos) == Absorb(23, <<seed, pos>>)

ChaCha20Rng_from_seed(seed) == [seed |-> seed, pos |-> 0]

\* EntropyHarvester::harvest with the wall-clock nanoseconds read as jitter
harvest(h, jitter) ==
    LET pool == h.avalanche_noise_pool
        new_entropy == Sha256(pool \o <<jitter>>)
        mixed == <<Xor(pool[1], new_entropy),
                   Xor(pool[2], rotate_left1(new_entropy)),
                   pool[3]>>
    IN  [h EXCEPT !.avalanche_noise_pool = mixed,
                  !.rng = IF jitter % 7 = 0
                          THEN ChaCha20Rng_from_seed(mixed[1])
                          ELSE @]

\* EntropyHarvester::get_entropy: harvest, then 64 bytes of keystream
get_entropy(h, jitter) ==
    LET h1 == harvest(h, jitter)
    IN  [harvester |-> [h1 EXCEPT !.rng.pos = @ + 2],
         buf |-> <<ChaCha20Block(h1.rng.seed, h1.rng.pos),
                   ChaCha20Block(h1.rng.seed, h1.rng.pos + 1)>>]

\* Hkdf::<Sha256>::new(Some(salt), ikm).expand(info, 32 bytes)
Hkdf_Sha256(salt, ikm, info) ==
    LET prk == Sha256(<<salt, ikm>>)
    IN  Sha256(<<prk>> \o info \o <<1>>)

\* EntropyHarvester::derive_secret
derive_secret(h, info, jitter) ==
    LET h1 == harvest(h, jitter)
    IN  [harvester |-> h1,
         okm |-> Hkdf_Sha256(h1.avalanche_noise_pool[1], h1.puf_root, info)]

\* get_hardware_secret: lock the singleton, derive
get_hardware_secret(h, context, jitter) == derive_secret(h, context, jitter)

\* the context b"LinkageTag" of create_proof
LinkageTagContext == <<17>>

\* the label b"LEVEL_4_FRESHNESS_BINDING"
Level4Label == <<29>>

\* get_level4_entropy: harvest, get_entropy, then the claim over the pool
get_level4_entropy(h, j1, j2) ==
    LET h1 == harvest(h, j1)
        g == get_entropy(h1, j2)
    IN  [harvester |-> g.harvester,
         claim |-> Sha256(Level4Label \o g.harvester.avalanche_noise_pool),
         entropy |-> g.buf]

-----------------------------------------------------------------------------
(* lib.rs: the linkage tag                                                 *)

\* generate_linkage_tag: g1 * (sk + hash_to_scalar(SHA-256(site_id))), compressed
generate_linkage_tag(sk, site_id) ==
    LET site_scalar == hash_to_scalar(<<Sha256(site_id)>>)
    IN  G1_to_compressed(PMul(G1_generator, SAdd(sk, site_scalar)))

-----------------------------------------------------------------------------
(* lib.rs: sign and verify_signature_safe                                  *)

\* the generator slots of a public key that decode, in slot order
RECURSIVE ParseGenerators(_)
ParseGenerators(slots) ==
    IF slots = <<>> THEN <<>>
    ELSE LET h_opt == G1_from_compressed(Head(slots))
         IN  IF h_opt.some
             THEN <<h_opt.val>> \o ParseGenerators(Tail(slots))
             ELSE ParseGenerators(Tail(slots))

\* sum over the messages of h_values[i + 1] * m_i, skipping a message without generator
RECURSIVE MessageSum(_, _, _)
MessageSum(h_values, msg_scalars, i) ==
    IF i > Len(msg_scalars) THEN G1_identity
    ELSE PAdd(IF i + 1 <= Len(h_values)
              THEN PMul(h_values[i + 1], msg_scalars[i])
              ELSE G1_identity,
              MessageSum(h_values, msg_scalars, i + 1))

\* B = g1 + h0*s + sum(hi*mi)
ComputeB(h_values, s, msg_scalars) ==
    PAdd(PAdd(G1_generator,
              IF h_values # <<>> THEN PMul(h_values[1], s) ELSE G1_identity),
         MessageSum(h_values, msg_scalars, 1))

MsgScalars(msgs) == [i \in 1 .. Len(msgs) |-> hash_to_scalar(msgs[i])]

\* sign; j1 and j2 are the clock readings of its two get_entropy calls
sign(h, sk_bytes, pk, msgs, j1, j2) ==
    IF Len(sk_bytes) # 1
    THEN [ret |-> Err("InvalidKey", NoBytes), harvester |-> h]
    ELSE
    LET sk_opt == Scalar_from_bytes(sk_bytes[1]) IN
    IF ~sk_opt.some
    THEN [ret |-> Err("InvalidKey", NoBytes), harvester |-> h]
    ELSE IF pk.len < 96
    THEN [ret |-> Err("InvalidKey", NoBytes), harvester |-> h]
    ELSE
    LET h_values == ParseGenerators(pk.slots) IN
    IF Len(h_values) < Len(msgs) + 1
    THEN [ret |-> Err("InvalidKey", NoBytes), harvester |-> h]
    ELSE
    LET sk == sk_opt.val
        msg_scalars == MsgScalars(msgs)
        ent_e == get_entropy(h, j1)
        e == Scalar_from_bytes_wide(ent_e.buf)
        ent_s == get_entropy(ent_e.harvester, j2)
        s == Scalar_from_bytes_wide(ent_s.buf)
        b == ComputeB(h_values, s, msg_scalars)
        sk_plus_e == SAdd(sk, e)
        inv_opt == invert(sk_plus_e)
        inv == IF inv_opt.some THEN inv_opt.val ELSE ONE
        a == PMul(b, inv)
    IN  [ret |-> Ok([len |-> 112,
                     a |-> G1_to_compressed(a),
                     e |-> Scalar_to_bytes(e),
                     s |-> Scalar_to_bytes(s)]),
         harvester |-> ent_s.harvester]

verify_signature_safe(pk, sig, msgs) ==
    IF pk.len < 96 THEN Err("InvalidKey", FALSE)
    ELSE
    LET w_opt == G2_from_compressed(pk.w) IN
    IF ~w_opt.some THEN Err("InvalidKey", FALSE)
    ELSE
    LET h_values == ParseGenerators(pk.slots) IN
    IF Len(h_values) < Len(msgs) + 1 THEN Err("InvalidKey", FALSE)
    ELSE IF sig.len # 112 THEN Err("InvalidSignature", FALSE)
    ELSE
    LET a_opt == G1_from_compressed(sig.a)
        e_opt == Scalar_from_bytes(sig.e)
        s_opt == Scalar_from_bytes(sig.s)
    IN
    IF ~a_opt.some THEN Err("InvalidSignature", FALSE)
    ELSE IF ~e_opt.some \/ ~s_opt.some THEN Err("InvalidSignature", FALSE)
    ELSE
    LET b == ComputeB(h_values, s_opt.val, MsgScalars(msgs))
        left == pairing(a_opt.val, PAdd(w_opt.val, PMul(G2_generator, e_opt.val)))
        right == pairing(b, G2_generator)
    IN  Ok(left = right)

-----------------------------------------------------------------------------
(* lib.rs: create_proof and verify_proof_safe                              *)

SomeBytes(b) == [some |-> TRUE, val |-> b]
NoneBytes == [some |-> FALSE, val |-> <<>>]

\* Option<Vec<u8>> appended to the challenge data: nothing when absent
OptBytes(o) == IF o.some THEN o.val ELSE <<>>

\* u64::to_le_bytes: eight bytes, one cell
u64_to_le_bytes(n) == <<n % DigestSpace>>

\* A' || Abar || d || nonce || linkage_tag || alias_index || freshness_claim
ChallengeData(a_prime, abar, d, nonce_bytes, linkage_tag, alias_index, fc) ==
    <<G1_to_compressed(a_prime), G1_to_compressed(abar), Scalar_to_bytes(d)>>
        \o nonce_bytes \o <<linkage_tag>> \o u64_to_le_bytes(alias_index) \o OptBytes(fc)

\* rust index i (from 0) is among the revealed indices
IsRevealed(revealed_indices, i) ==
    \E k \in 1 .. Len(revealed_indices) : revealed_indices[k] = i

\* the rust indices 0 .. n-1 that are not revealed, ascending
RECURSIVE HiddenFrom(_, _, _)
HiddenFrom(revealed_indices, i, n) ==
    IF i >= n THEN <<>>
    ELSE (IF IsRevealed(revealed_indices, i) THEN <<>> ELSE <<i>>)
            \o HiddenFrom(revealed_indices, i + 1, n)

\* the get_entropy draws of create_proof for r1, r2 and each hidden message,
\* all reading the clock value j: the harvester after them and the scalars drawn
RECURSIVE DrawScalars(_, _, _)
DrawScalars(h, j, n) ==
    IF n = 0 THEN [harvester |-> h, scalars |-> <<>>]
    ELSE LET g == get_entropy(h, j)
             rest == DrawScalars(g.harvester, j, n - 1)
         IN  [harvester |-> rest.harvester,
              scalars |-> <<Scalar_from_bytes_wide(g.buf)>> \o rest.scalars]

\* the proof bytes: 244 bytes of fixed prefix, then r_count responses of 32 bytes
ProofBytes(a_prime, abar, e_tilde, d, c, linkage_tag, responses) ==
    [len |-> 244 + 32 * Len(responses),
     a_prime |-> a_prime, abar |-> abar, e_tilde |-> e_tilde, d |-> d, c |-> c,
     linkage_tag |-> linkage_tag, r_count |-> Len(responses), responses |-> responses]

\* create_proof; j is the clock value its harvests read
create_proof(h, pk, sig, msgs, revealed_indices, nonce, site_id, alias_index, blinding_factor, freshness_claim, j) ==
    IF pk.len < 96
    THEN [ret |-> Err("InvalidKey", NoBytes), harvester |-> h]
    ELSE IF sig.len # 112
    THEN [ret |-> Err("InvalidSignature", NoBytes), harvester |-> h]
    ELSE
    LET h_values == ParseGenerators(pk.slots)
        a_opt == G1_from_compressed(sig.a)
        e_opt == Scalar_from_bytes(sig.e)
        s_opt == Scalar_from_bytes(sig.s)
    IN
    IF ~a_opt.some \/ ~e_opt.some \/ ~s_opt.some
    THEN [ret |-> Err("InvalidSignature", NoBytes), harvester |-> h]
    ELSE
    LET msg_scalars == MsgScalars(msgs)
        hw == get_hardware_secret(h, LinkageTagContext, j)
        h0 == IF blinding_factor.some THEN h ELSE hw.harvester
        sk_scalar == IF blinding_factor.some
                     THEN hash_to_scalar(blinding_factor.val)
                     ELSE hash_to_scalar(<<hw.okm>>)
        linkage_tag == generate_linkage_tag(sk_scalar, site_id)
        r12 == DrawScalars(h0, j, 2)
        r1 == r12.scalars[1]
        r2 == IF blinding_factor.some
              THEN SAdd(r12.scalars[2], hash_to_scalar(blinding_factor.val))
              ELSE r12.scalars[2]
        a_prime == PMul(a_opt.val, r1)
        abar == IF h_values # <<>>
                THEN PSub(a_prime, PMul(h_values[1], r2))
                ELSE a_prime
        d == SAdd(SMul(s_opt.val, r1), r2)
        r1_inv == invert(r1)
    IN
    IF ~r1_inv.some
    THEN [ret |-> Err("CryptoError", NoBytes), harvester |-> r12.harvester]
    ELSE
    LET e_tilde == SMul(e_opt.val, r1_inv.val)
        hidden == HiddenFrom(revealed_indices, 0, Len(msgs))
        rm == DrawScalars(r12.harvester, j, Len(hidden))
        hidden_randomness == rm.scalars
        challenge == hash_to_scalar(
            ChallengeData(a_prime, abar, d, OptBytes(nonce), linkage_tag,
                          alias_index, freshness_claim))
        responses == [k \in 1 .. Len(hidden) |->
                        Scalar_to_bytes(SAdd(hidden_randomness[k],
                                             SMul(challenge, msg_scalars[hidden[k] + 1])))]
    IN  [ret |-> Ok(ProofBytes(G1_to_compressed(a_prime), G1_to_compressed(abar),
                               Scalar_to_bytes(e_tilde), Scalar_to_bytes(d),
                               Scalar_to_bytes(challenge), linkage_tag, responses)),
         harvester |-> rm.harvester]

\* the response cells a proof of the given byte length holds
ResponsesPresent(proof) == (proof.len - 244) \div 32

\* sum over the revealed pairs, in input order, of h_values[idx + 1] * scalar
RECURSIVE RevealedSum(_, _, _, _)
RevealedSum(h_values, revealed_idxs, revealed_scalars, k) ==
    IF k > Len(revealed_idxs) THEN G1_identity
    ELSE PAdd(IF revealed_idxs[k] + 2 <= Len(h_values)
              THEN PMul(h_values[revealed_idxs[k] + 2], revealed_scalars[k])
              ELSE G1_identity,
              RevealedSum(h_values, revealed_idxs, revealed_scalars, k + 1))

\* the DoS guard: response_count may exceed total_message_count by this much
ResponseSlack == 10

\* usize and u64 have UsizeModulus values, u32 has U32Modulus values
UsizeModulus == 64
U32Modulus == 16

\* usize + usize as a build without overflow checks computes it
usize_add(a, b) == (a + b) % UsizeModulus

\* usize + usize aborts in a build with overflow checks when the sum does not fit
usize_add_overflows(a, b) == a + b >= UsizeModulus

\* never rejects on the response count
response_count_unbounded(response_count, total_message_count) == FALSE

\* response_count > total_message_count + 10
response_count_exceeds(response_count, total_message_count) ==
    response_count > usize_add(total_message_count, ResponseSlack)

verify_proof_safe(pk, proof, total_message_count, revealed_indices, revealed_messages_content, nonce, alias_index, freshness_claim) ==
    IF Len(revealed_indices) # Len(revealed_messages_content)
    THEN Err("InvalidSignature", FALSE)
    ELSE IF pk.len < 96 THEN Err("InvalidKey", FALSE)
    ELSE
    LET w_opt == G2_from_compressed(pk.w) IN
    IF ~w_opt.some THEN Err("InvalidKey", FALSE)
    ELSE
    LET h_values == ParseGenerators(pk.slots) IN
    IF proof.len < 196 THEN Err("InvalidSignature", FALSE)
    ELSE IF proof.len < 244 THEN Err("Panic", FALSE)
    ELSE IF response_count_exceeds(proof.r_count, total_message_count)
    THEN Err("InvalidSignature", FALSE)
    ELSE
    LET a_prime_opt == G1_from_compressed(proof.a_prime)
        abar_opt == G1_from_compressed(proof.abar)
        e_tilde_opt == Scalar_from_bytes(proof.e_tilde)
        d_opt == Scalar_from_bytes(proof.d)
        challenge_opt == Scalar_from_bytes(proof.c)
        linkage_tag_opt == G1_from_compressed(proof.linkage_tag)
    IN
    IF ~a_prime_opt.some \/ ~abar_opt.some \/ ~e_tilde_opt.some
         \/ ~d_opt.some \/ ~challenge_opt.some \/ ~linkage_tag_opt.some
    THEN Err("InvalidSignature", FALSE)
    ELSE IF proof.r_count > ResponsesPresent(proof)
    THEN Err("InvalidSignature", FALSE)
    ELSE IF \E k \in 1 .. proof.r_count : ~Scalar_from_bytes(proof.responses[k]).some
    THEN Err("InvalidSignature", FALSE)
    ELSE
    LET revealed_scalars == MsgScalars(revealed_messages_content)
        challenge_check == hash_to_scalar(
            ChallengeData(a_prime_opt.val, abar_opt.val, d_opt.val, nonce,
                          G1_to_compressed(linkage_tag_opt.val), alias_index,
                          freshness_claim))
    IN
    IF challenge_opt.val # challenge_check THEN Ok(FALSE)
    ELSE
    LET w_g2e == PAdd(w_opt.val, PMul(G2_generator, e_tilde_opt.val))
        rhs_sum == PAdd(PAdd(abar_opt.val,
                             IF h_values # <<>>
                             THEN PMul(h_values[1], d_opt.val)
                             ELSE G1_identity),
                        RevealedSum(h_values, revealed_indices, revealed_scalars, 1))
        lhs == pairing(a_prime_opt.val, w_g2e)
        rhs == pairing(rhs_sum, G2_generator)
    IN  Ok(lhs = rhs)

\* verify_proof_safe gets as far as the response count guard
ReachesResponseGuard(pk, proof, revealed_indices, revealed_messages_content) ==
    /\ Len(revealed_indices) = Len(revealed_messages_content)
    /\ pk.len >= 96
    /\ G2_from_compressed(pk.w).some
    /\ proof.len >= 244

\* the capacity verify_proof_safe passes to Vec::with_capacity for the
\* responses: response_count once the guard and the field parsing are passed,
\* nothing when it returns before
response_capacity(pk, proof, total_message_count, revealed_indices, revealed_messages_content) ==
    IF /\ ReachesResponseGuard(pk, proof, revealed_indices, revealed_messages_content)
       /\ ~response_count_exceeds(proof.r_count, total_message_count)
       /\ G1_from_compressed(proof.a_prime).some
       /\ G1_from_compressed(proof.abar).some
       /\ Scalar_from_bytes(proof.e_tilde).some
       /\ Scalar_from_bytes(proof.d).some
       /\ Scalar_from_bytes(proof.c).some
       /\ G1_from_compressed(proof.linkage_tag).some
    THEN proof.r_count
    ELSE 0

\* the outcomes of verify_proof_safe over the builds: a build with overflow
\* checks aborts at the guard when total_message_count + 10 does not fit
verify_proof_outcomes(pk, proof, total_message_count, revealed_indices, revealed_messages_content, nonce, alias_index, freshness_claim) ==
    {verify_proof_safe(pk, proof, total_message_count, revealed_indices,
                       revealed_messages_content, nonce, alias_index, freshness_claim)}
    \cup (IF /\ ReachesResponseGuard(pk, proof, revealed_indices,
                                     revealed_messages_content)
             /\ usize_add_overflows(total_message_count, ResponseSlack)
          THEN {Err("Panic", FALSE)}
          ELSE {})

-----------------------------------------------------------------------------
(* lib.rs: delegation tokens                                                *)

\* anchor_id and mobile_key are strings of cells of CellBytes bytes each
CellBytes == 16

DelegationToken(anchor_id, mobile_key, expiration, tier, scope_mask, max_passages) ==
    [anchor_id |-> anchor_id, mobile_key |-> mobile_key, expiration |-> expiration,
     tier |-> tier, scope_mask |-> scope_mask, max_passages |-> max_passages]

\* u32::to_le_bytes: four bytes, one cell
u32_to_le_bytes(n) == <<n % U32Modulus>>

\* DelegationToken::to_bytes: the fields appended as they are
to_bytes(token) ==
    token.anchor_id \o token.mobile_key \o u64_to_le_bytes(token.expiration)
        \o <<token.tier>> \o u32_to_le_bytes(token.scope_mask)
        \o u32_to_le_bytes(token.max_passages)

\* the number of bytes to_bytes returns
to_bytes_len(token) ==
    CellBytes * Len(token.anchor_id) + CellBytes * Len(token.mobile_key) + 8 + 1 + 4 + 4

\* hash_to_scalar(&Sha256(token.to_bytes()))
token_scalar(token) == hash_to_scalar(<<Sha256(to_bytes(token))>>)

\* the generators h0, h1 read from the bytes 96 .. 192 of the public key
delegation_generators(pk) ==
    IF pk.len < 192 THEN None
    ELSE IF ~G1_from_compressed(pk.slots[1]).some \/ ~G1_from_compressed(pk.slots[2]).some
    THEN None
    ELSE Some(<<G1_from_compressed(pk.slots[1]).val, G1_from_compressed(pk.slots[2]).val>>)

\* sign_delegation; e and s are the draws of Scalar::random
sign_delegation(sk_bytes, pk_bytes, token, e, s) ==
    IF Len(sk_bytes) # 1 THEN Err("InvalidKey", NoBytes)
    ELSE IF ~Scalar_from_bytes(sk_bytes[1]).some THEN Err("Panic", NoBytes)
    ELSE
    LET sk == Scalar_from_bytes(sk_bytes[1]).val
        h == delegation_generators(pk_bytes)
    IN
    IF ~h.some THEN Err("InvalidKey", NoBytes)
    ELSE
    LET m_scalar == token_scalar(token)
        b == PAdd(PAdd(G1_generator, PMul(h.val[1], s)), PMul(h.val[2], m_scalar))
        inv == invert(SAdd(sk, e))
    IN
    IF ~inv.some THEN Err("CryptoError", NoBytes)
    ELSE Ok([len |-> 112, a |-> G1_to_compressed(PMul(b, inv.val)),
             e |-> Scalar_to_bytes(e), s |-> Scalar_to_bytes(s)])

verify_delegation_signature(pk_bytes, token, sig_bytes) ==
    IF sig_bytes.len # 112 THEN Err("InvalidSignature", FALSE)
    ELSE
    LET a_opt == G1_from_compressed(sig_bytes.a)
        e_opt == Scalar_from_bytes(sig_bytes.e)
        s_opt == Scalar_from_bytes(sig_bytes.s)
    IN
    IF ~a_opt.some \/ ~e_opt.some \/ ~s_opt.some THEN Err("InvalidSignature", FALSE)
    ELSE IF pk_bytes.len < 192 THEN Err("InvalidKey", FALSE)
    ELSE
    LET w_opt == G2_from_compressed(pk_bytes.w)
        h == delegation_generators(pk_bytes)
    IN
    IF ~w_opt.some \/ ~h.some THEN Err("InvalidKey", FALSE)
    ELSE
    LET m == token_scalar(token)
        lhs == pairing(a_opt.val, PAdd(w_opt.val, PMul(G2_generator, e_opt.val)))
        rhs_g1 == PAdd(PAdd(G1_generator, PMul(h.val[1], s_opt.val)),
                       PMul(h.val[2], m))
        rhs == pairing(rhs_g1, G2_generator)
    IN  Ok(lhs = rhs)

-----------------------------------------------------------------------------
(* lib.rs: Shamir secret sharing                                            *)

\* Scalar::from(x as u64)
Scalar_from_u64(x) == x % ScalarModulus

\* y = sum of coeffs[i] * x^(i-1), accumulated from coefficient i on
RECURSIVE PolyEval(_, _, _, _)
PolyEval(coeffs, x_scalar, i, x_pow) ==
    IF i > Len(coeffs) THEN ZERO
    ELSE SAdd(SMul(coeffs[i], x_pow),
              PolyEval(coeffs, x_scalar, i + 1, SMul(x_pow, x_scalar)))

\* split_secret(secret, n, k); random holds the draws of Scalar::random, of
\* which the loop `for _ in 1..k` takes k - 1
split_secret(secret, n, k, random) ==
    LET coeffs == <<secret>> \o [i \in 1 .. (IF k >= 1 THEN k - 1 ELSE 0) |-> random[i]]
    IN  [x \in 1 .. n |-> [x |-> x, y |-> PolyEval(coeffs, Scalar_from_u64(x), 1, ONE)]]

\* product over m # j, from position m on, of xm (the sign is dropped)
RECURSIVE lagrange_numerator_unsigned(_, _, _)
lagrange_numerator_unsigned(shares, j, m) ==
    IF m > Len(shares) THEN ONE
    ELSE SMul(IF m # j THEN Scalar_from_u64(shares[m].x) ELSE ONE,
              lagrange_numerator_unsigned(shares, j, m + 1))

\* product over m # j, from position m on, of -xm
RECURSIVE lagrange_numerator(_, _, _)
lagrange_numerator(shares, j, m) ==
    IF m > Len(shares) THEN ONE
    ELSE SMul(IF m # j THEN SNeg(Scalar_from_u64(shares[m].x)) ELSE ONE,
              lagrange_numerator(shares, j, m + 1))

\* product over m # j, from position m on, of xj - xm
RECURSIVE lagrange_denominator(_, _, _)
lagrange_denominator(shares, j, m) ==
    IF m > Len(shares) THEN ONE
    ELSE SMul(IF m # j
              THEN SSub(Scalar_from_u64(shares[j].x), Scalar_from_u64(shares[m].x))
              ELSE ONE,
              lagrange_denominator(shares, j, m + 1))

\* sum over j, from position j on, of y_j * numerator_j / denominator_j
RECURSIVE lagrange_sum(_, _)
lagrange_sum(shares, j) ==
    IF j > Len(shares) THEN ZERO
    ELSE SAdd(SMul(shares[j].y,
                   SMul(lagrange_numerator(shares, j, 1),
                        invert(lagrange_denominator(shares, j, 1)).val)),
              lagrange_sum(shares, j + 1))

\* reconstruct_secret without the check of the inverted denominator
reconstruct_secret_unchecked(shares) ==
    IF shares = <<>> THEN Err("No shares provided", ZERO)
    ELSE Ok(lagrange_sum(shares, 1))

reconstruct_secret(shares) ==
    IF shares = <<>> THEN Err("No shares provided", ZERO)
    ELSE IF \E j \in 1 .. Len(shares) : ~invert(lagrange_denominator(shares, j, 1)).some
    THEN Err("Invalid shares (duplicate indices?)", ZERO)
    ELSE Ok(lagrange_sum(shares, 1))

\* a share on the wire: the index byte, then the 32 bytes of the scalar
ShareBytes(idx, s) == [len |-> 33, idx |-> idx, s |-> s]

split_secret_safe(secret, threshold, total, random) ==
    IF Len(secret) # 1 THEN Err("InvalidKey", <<>>)
    ELSE
    LET scalar_opt == Scalar_from_bytes(secret[1]) IN
    IF ~scalar_opt.some THEN Err("InvalidKey", <<>>)
    ELSE
    LET shares == split_secret(scalar_opt.val, threshold, total, random)
    IN  Ok([i \in 1 .. Len(shares) |-> ShareBytes(shares[i].x, Scalar_to_bytes(shares[i].y))])

reconstruct_secret_safe(shares) ==
    IF \E i \in 1 .. Len(shares) :
          shares[i].len # 33 \/ ~Scalar_from_bytes(shares[i].s).some
    THEN Err("InvalidKey", <<>>)
    ELSE
    LET parsed_shares == [i \in 1 .. Len(shares) |->
                             [x |-> shares[i].idx, y |-> Scalar_from_bytes(shares[i].s).val]]
        secret == reconstruct_secret(parsed_shares)
    IN  IF ~secret.ok THEN Err("CryptoError", <<>>)
        ELSE Ok(<<Scalar_to_bytes(secret.val)>>)

-----------------------------------------------------------------------------
(* miner.rs: k-anonymity buffers, differential privacy and the vault       *)

K_ANONYMITY_THRESHOLD == 15
HourSeconds == 3600

EmptyMap == [x \in {} |-> 0]

\* String::new() and hex::encode of a digest: 64 hex digits, never empty
String_new == <<>>
hex_encode(digest) == <<digest>>

hash_identity(identity) == hex_encode(Sha256(identity))

MacroDataPoint(category, value, timestamp, identity_hash) ==
    [category |-> category, value |-> value, timestamp |-> timestamp,
     identity_hash |-> identity_hash]

AnonymityBuffer_new(category) ==
    [category |-> category, data_points |-> <<>>, unique_identities |-> EmptyMap]

\* a point of an identity that is buffered already is dropped
add_data_point_once(buffer, point) ==
    IF point.identity_hash \in DOMAIN buffer.unique_identities THEN buffer
    ELSE [buffer EXCEPT
            !.unique_identities =
                [k \in DOMAIN @ \cup {point.identity_hash} |->
                    IF k = point.identity_hash THEN 1 ELSE @[k]],
            !.data_points = Append(@, point)]

add_data_point(buffer, point) ==
    LET h == point.identity_hash
        counts == buffer.unique_identities
    IN  [buffer EXCEPT
            !.unique_identities =
                IF h \in DOMAIN counts
                THEN [counts EXCEPT ![h] = @ + 1]
                ELSE [k \in DOMAIN counts \cup {h} |->
                        IF k = h THEN 1 ELSE counts[k]],
            !.data_points = Append(@, point)]

unique_count(buffer) == Cardinality(DOMAIN buffer.unique_identities)

\* the drained points newest first
flush_newest_first(buffer) ==
    [result |-> [i \in 1 .. Len(buffer.data_points) |->
                    buffer.data_points[Len(buffer.data_points) + 1 - i]],
     buffer |-> [buffer EXCEPT !.data_points = <<>>, !.unique_identities = EmptyMap]]

\* the drained points, with the identity counts left in the buffer
flush_keeps_identities(buffer) ==
    [result |-> buffer.data_points, buffer |-> [buffer EXCEPT !.data_points = <<>>]]

\* flush: the drained points and the emptied buffer
flush(buffer) ==
    [result |-> buffer.data_points,
     buffer |-> [buffer EXCEPT !.data_points = <<>>, !.unique_identities = EmptyMap]]

\* the threshold with the rare categories' arms left out
get_dynamic_threshold_flat(category) == K_ANONYMITY_THRESHOLD

get_dynamic_threshold(category) ==
    LET base == K_ANONYMITY_THRESHOLD
    IN  IF category \in {"HIV_STATUS", "POLITICAL_AFFILIATION"} THEN base * 2
        ELSE IF category \in {"AGE_BRACKET", "ZIP_CODE"} THEN base + 5
        ELSE base

\* Laplace::new(0, 1 / epsilon) fails for a scale that is not positive
Laplace_new_ok(epsilon) == epsilon > 0

\* the noise the thread generator seeded with seed adds to the i-th point
LaplaceNoise(seed, i) == ((seed + i) % 3) - 1

\* the noise alone: timestamp and identity hash are left as submitted
apply_noise_only(epsilon, data_points, seed) ==
    IF ~Laplace_new_ok(epsilon)
    THEN Err("Failed to create Laplace distribution", <<>>)
    ELSE Ok([i \in 1 .. Len(data_points) |->
                [data_points[i] EXCEPT !.value = @ + LaplaceNoise(seed, i)]])

apply_differential_privacy(epsilon, data_points, seed) ==
    IF ~Laplace_new_ok(epsilon)
    THEN Err("Failed to create Laplace distribution", <<>>)
    ELSE Ok([i \in 1 .. Len(data_points) |->
                [data_points[i] EXCEPT
                    !.value = @ + LaplaceNoise(seed, i),
                    !.timestamp = (@ \div HourSeconds) * HourSeconds,
                    !.identity_hash = String_new]])

\* format!("{}:{}", category, timestamp)
vault_key(point) == <<point.category, ":", point.timestamp>>

\* serde_json::to_vec of a point: the JSON object's four members in field order
serde_json_to_vec(point) ==
    <<<<"category", point.category>>, <<"value", point.value>>,
      <<"timestamp", point.timestamp>>, <<"identity_hash", point.identity_hash>>>>

\* serde_json::from_slice: the point whose fields are the members' values
serde_json_from_slice(bytes) ==
    LET member(name) == (CHOOSE m \in {bytes[i] : i \in 1 .. Len(bytes)} : m[1] = name)[2]
    IN  MacroDataPoint(member("category"), member("value"), member("timestamp"),
                       member("identity_hash"))

vault_insert(vault, key, value) ==
    [k \in DOMAIN vault \cup {key} |-> IF k = key THEN value ELSE vault[k]]

\* store_in_vault from the i-th point on; the fail_at-th insert fails, and
\* the flush fails when fail_at is Len(data) + 1 (0: nothing fails); inserted
\* counts the inserts that were made
RECURSIVE store_in_vault_from(_, _, _, _)
store_in_vault_from(vault, data, i, fail_at) ==
    IF i > Len(data)
    THEN [vault |-> vault, inserted |-> i - 1,
          ret |-> IF fail_at = Len(data) + 1
                  THEN Err("Failed to flush vault", FALSE) ELSE Ok(TRUE)]
    ELSE IF i = fail_at
    THEN [vault |-> vault, inserted |-> i - 1,
          ret |-> Err("Failed to insert into vault", FALSE)]
    ELSE store_in_vault_from(vault_insert(vault, vault_key(data[i]),
                                          serde_json_to_vec(data[i])),
                             data, i + 1, fail_at)

store_in_vault(vault, data, fail_at) == store_in_vault_from(vault, data, 1, fail_at)

\* submit_macro_data under the write lock of buffers: now is the clock
\* reading, seed the noise generator's state, fail_at the vault fault
submit_macro_data(eng, category, value, identity, now, seed, fail_at) ==
    LET identity_hash == hash_identity(identity)
        data_point == MacroDataPoint(category, value, now, identity_hash)
        entry == IF category \in DOMAIN eng.buffers
                 THEN eng.buffers[category] ELSE AnonymityBuffer_new(category)
        buffer == add_data_point(entry, data_point)
        put(b) == [k \in DOMAIN eng.buffers \cup {category} |->
                      IF k = category THEN b ELSE eng.buffers[k]]
        threshold == get_dynamic_threshold(category)
    IN  IF unique_count(buffer) >= threshold
        THEN LET flushed == flush(buffer)
                 drained == [eng EXCEPT !.buffers = put(flushed.buffer)]
                 anonymized == apply_differential_privacy(eng.epsilon, flushed.result, seed)
             IN  IF ~anonymized.ok
                 THEN [engine |-> drained, ret |-> Err(anonymized.err, None),
                       stored |-> <<>>]
                 ELSE LET stored == store_in_vault(eng.vault, anonymized.val, fail_at)
                      IN  [engine |-> [drained EXCEPT !.vault = stored.vault],
                           ret |-> IF stored.ret.ok THEN Ok(Some(anonymized.val))
                                   ELSE Err(stored.ret.err, None),
                           stored |-> SubSeq(anonymized.val, 1, stored.inserted)]
        ELSE [engine |-> [eng EXCEPT !.buffers = put(buffer)], ret |-> Ok(None),
              stored |-> <<>>]

\* the decimal digits of n, as format! writes them
RECURSIVE Decimal(_)
Decimal(n) == IF n < 10 THEN <<n>> ELSE Append(Decimal(n \div 10), n % 10)

\* byte order of two digit strings, as sled orders its keys
RECURSIVE BytesBefore(_, _)
BytesBefore(a, b) ==
    IF a = <<>> THEN b # <<>>
    ELSE IF b = <<>> THEN FALSE
    ELSE IF Head(a) # Head(b) THEN Head(a) < Head(b)
    ELSE BytesBefore(Tail(a), Tail(b))

\* the keys in sled's iteration order
RECURSIVE KeysInOrder(_)
KeysInOrder(keys) ==
    IF keys = {} THEN <<>>
    ELSE LET first == CHOOSE k \in keys :
                         \A o \in keys \ {k} : BytesBefore(Decimal(k[3]), Decimal(o[3]))
         IN  <<first>> \o KeysInOrder(keys \ {first})

\* query_vault: the entries whose key splits at the colon into the category
\* and a timestamp in start_timestamp ..= end_timestamp, in key order
query_vault(vault, category, start_timestamp, end_timestamp) ==
    LET matching == {key \in DOMAIN vault :
                        /\ key[1] = category
                        /\ key[3] >= start_timestamp
                        /\ key[3] <= end_timestamp}
        ordered == KeysInOrder(matching)
    IN  Ok([i \in 1 .. Len(ordered) |-> serde_json_from_slice(vault[ordered[i]])])

MinerEngine_new(epsilon) == [buffers |-> EmptyMap, vault |-> EmptyMap, epsilon |-> epsilon]

-----------------------------------------------------------------------------
(* Bounds and input sets                                                   *)

\* wall-clock readings seen by harvest are 0 .. MaxJitter (0 reseeds the generator)
MaxJitter == 1
\* initial generator seeds are 0 .. MaxSeed
MaxSeed == 3
\* messages are the one-cell strings <<0>> .. <<MaxMsgCell>>
MaxMsgCell == 3
\* message lists have at most MaxMsgs messages
MaxMsgs == 2

Jitters == 0 .. MaxJitter

\* the harvester after EntropyHarvester::new(): seed, pool and PUF root as read
\* from the hardware generator
Harvesters ==
    {[rng |-> ChaCha20Rng_from_seed(seed),
      avalanche_noise_pool |-> <<7, 19, 4>>,
      puf_root |-> 21] : seed \in 0 .. MaxSeed}

Messages == {<<c>> : c \in 0 .. MaxMsgCell}

RECURSIVE ListsUpTo(_, _)
ListsUpTo(S, n) ==
    IF n = 0 THEN {<<>>}
    ELSE LET shorter == ListsUpTo(S, n - 1)
         IN  shorter \cup {Append(l, x) : l \in {k \in shorter : Len(k) = n - 1}, x \in S}

MessageLists == ListsUpTo(Messages, MaxMsgs)

\* a message list and the lists that differ from it in one position
OneMessageChanged(msgs) ==
    {msgs} \cup {[msgs EXCEPT ![i] = m] : i \in 1 .. Len(msgs), m \in Messages}

\* secret key byte strings: every 32-byte cell value that is canonical, one
\* that is not, and one of the wrong length
SecretKeyInputs == {<<c>> : c \in 0 .. ScalarModulus} \cup {<<>>}

\* generator slot contents of the public keys: hash-to-curve outputs of
\* distinct labels; the second list carries a slot that is no curve point
GeneratorLists == {<<2, 3, 5>>, <<2, 20, 3>>, <<6, 7>>}

PublicKey(w, slots) == [len |-> 96 + 48 * Len(slots), w |-> w, slots |-> slots]

\* the public keys of a secret key: w = g2 * sk
PublicKeysOf(sk_bytes) ==
    LET sk == IF sk_bytes # <<>> /\ Scalar_from_bytes(sk_bytes[1]).some
              THEN sk_bytes[1] ELSE ONE
    IN  {PublicKey(G2_to_compressed(PMul(G2_generator, sk)), slots) :
            slots \in GeneratorLists}

NotCalled == Err("NotCalled", NoBytes)
NoCall == [op |-> "none"]
NoTags == [done |-> FALSE]
NoEnt == [calls |-> 0]
NoPresentation == [by |-> "none"]
NotAccepted == [some |-> FALSE]

NoHolder ==
    /\ presentation = NoPresentation
    /\ presented = NoBytes
    /\ accepted = NotAccepted

\* the first clock reading is StartTime
StartTime == 7199

NoMiner ==
    /\ engine = MinerEngine_new(1)
    /\ clock = StartTime
    /\ since = EmptyMap
    /\ submits = 0
    /\ submitted = <<>>
    /\ released = <<>>
    /\ drains = <<>>

\* no thread is in a call
NoThreads ==
    /\ threads = <<>>
    /\ lock = 0
    /\ log = <<>>

\* site identifiers are the one-cell strings <<0>> .. <<MaxSite>>
MaxSite == 3
Sites == {<<c>> : c \in 0 .. MaxSite}

\* the entropy service is called at most MaxEntCalls times
MaxEntCalls == 3
\* the contexts that get_hardware_secret is called with
Contexts == {LinkageTagContext, <<18>>}

-----------------------------------------------------------------------------
(* Signature specification: the issuer signs once, verifiers verify        *)

InitSig ==
    /\ harvester \in Harvesters
    /\ secret_key \in SecretKeyInputs
    /\ public_key \in PublicKeysOf(secret_key)
    /\ messages \in MessageLists
    /\ signature = NotCalled
    /\ last = NoCall
    /\ tags = NoTags
    /\ ent = NoEnt
    /\ NoHolder
    /\ NoMiner
    /\ NoThreads

Sign ==
    /\ signature.err = "NotCalled"
    /\ presentation.by = "none"
    /\ \E j1 \in Jitters, j2 \in Jitters :
         LET r == sign(harvester, secret_key, public_key, messages, j1, j2)
         IN  /\ signature' = r.ret
             /\ harvester' = r.harvester
    /\ UNCHANGED miner
    /\ UNCHANGED sched
    /\ UNCHANGED <<secret_key, public_key, messages, last, tags, ent, holder>>

VerifySignature ==
    /\ signature.ok
    /\ \E msgs \in OneMessageChanged(messages) :
         last' = [op |-> "verify_signature_safe",
                  public_key |-> public_key,
                  signature |-> signature.val,
                  messages |-> msgs,
                  ret |-> verify_signature_safe(public_key, signature.val, msgs)]
    /\ UNCHANGED miner
    /\ UNCHANGED sched
    /\ UNCHANGED <<harvester, secret_key, public_key, messages, signature, tags, ent, holder>>

NextSig == Sign \/ VerifySignature

SpecSig == InitSig /\ [][NextSig]_vars

-----------------------------------------------------------------------------
(* Claims on the signature                                                 *)

\* the positions at which two message lists of one length differ in SHA-256 digest
DigestDiffers(msgs1, msgs2) ==
    {i \in 1 .. Len(msgs1) : Sha256(msgs1[i]) # Sha256(msgs2[i])}

\* the secret key bytes are a canonical scalar
CanonicalSecretKey == secret_key # <<>> /\ Scalar_from_bytes(secret_key[1]).some

\* the public key has a generator h0 and one for every message
EnoughGenerators == Len(ParseGenerators(public_key.slots)) >= Len(messages) + 1

\* C2: for a canonical secret key and a public key with a generator for h0
\* and for every message, a signature that sign returns is accepted by
\* verify_signature_safe under pk for the same messages, whatever entropy
\* the two draws of sign yield, and sign never emits one with sk + e = 0
C2_SignThenVerify ==
    (CanonicalSecretKey /\ EnoughGenerators /\ signature.ok)
    => /\ (last.op = "verify_signature_safe" /\ last.messages = messages)
            => IsOkTrue(last.ret)
       /\ SAdd(secret_key[1], signature.val.e) # ZERO

\* what sign does satisfy: the signature verifies unless it was made with sk + e = 0
SignThenVerifyUnlessZero ==
    (last.op = "verify_signature_safe" /\ last.messages = messages
        /\ SAdd(secret_key[1], signature.val.e) # ZERO)
    => IsOkTrue(last.ret)

\* C3: verification of a signature against a list of the same length that
\* differs from the signed list in the SHA-256 digest of some position does
\* not return Ok(true)
C3_OtherMessagesRejected ==
    (last.op = "verify_signature_safe"
        /\ Len(last.messages) = Len(messages)
        /\ DigestDiffers(messages, last.messages) # {})
    => ~IsOkTrue(last.ret)

\* what does hold: a list that differs in the hashed scalar of one position is rejected
OtherScalarsRejected ==
    (last.op = "verify_signature_safe"
        /\ Len(last.messages) = Len(messages)
        /\ MsgScalars(last.messages) # MsgScalars(messages)
        /\ SAdd(secret_key[1], signature.val.e) # ZERO)
    => ~IsOkTrue(last.ret)

-----------------------------------------------------------------------------
(* Linkage-tag specification: two calls of generate_linkage_tag            *)

IdleIssuer ==
    /\ secret_key = <<ONE>>
    /\ public_key = PublicKey(G2_to_compressed(G2_generator), <<2, 3, 5>>)
    /\ messages = <<>>
    /\ signature = NotCalled
    /\ last = NoCall

InitTag ==
    /\ harvester \in Harvesters
    /\ IdleIssuer
    /\ NoHolder
    /\ NoMiner
    /\ NoThreads
    /\ ent = NoEnt
    /\ \E sk_a \in Scalars, sk_b \in Scalars, site_a \in Sites, site_b \in Sites :
         tags = [done |-> FALSE, sk_a |-> sk_a, site_a |-> site_a,
                 sk_b |-> sk_b, site_b |-> site_b]

GenerateLinkageTags ==
    /\ ~tags.done
    /\ tags' = [done |-> TRUE,
                sk_a |-> tags.sk_a, site_a |-> tags.site_a,
                sk_b |-> tags.sk_b, site_b |-> tags.site_b,
                tag_a |-> generate_linkage_tag(tags.sk_a, tags.site_a),
                tag_b |-> generate_linkage_tag(tags.sk_b, tags.site_b)]
    /\ UNCHANGED miner
    /\ UNCHANGED sched
    /\ UNCHANGED <<harvester, secret_key, public_key, messages, signature, last, ent, holder>>

NextTag == GenerateLinkageTags

SpecTag == InitTag /\ [][NextTag]_vars

\* C8: the tag is a function of (sk, site_id); under one sk, sites of
\* different SHA-256 digests get different tags; under one site, different
\* sk get different tags
C8_LinkageTagSeparates ==
    tags.done =>
      /\ (tags.sk_a = tags.sk_b /\ tags.site_a = tags.site_b) => tags.tag_a = tags.tag_b
      /\ (tags.sk_a = tags.sk_b /\ Sha256(tags.site_a) # Sha256(tags.site_b))
            => tags.tag_a # tags.tag_b
      /\ (tags.sk_a # tags.sk_b /\ tags.site_a = tags.site_b) => tags.tag_a # tags.tag_b

\* what does hold: the tag separates secrets, and sites whose hashed scalars differ
LinkageTagSeparatesScalars ==
    tags.done =>
      /\ (tags.sk_a = tags.sk_b
            /\ hash_to_scalar(<<Sha256(tags.site_a)>>) # hash_to_scalar(<<Sha256(tags.site_b)>>))
            => tags.tag_a # tags.tag_b
      /\ (tags.sk_a # tags.sk_b /\ tags.site_a = tags.site_b) => tags.tag_a # tags.tag_b

-----------------------------------------------------------------------------
(* Entropy-service specification: calls of the public periwinkle API       *)

InitEnt ==
    /\ harvester \in Harvesters
    /\ IdleIssuer
    /\ NoHolder
    /\ NoMiner
    /\ NoThreads
    /\ tags = NoTags
    /\ ent = [calls |-> 0,
              first |-> [c \in Contexts |-> None],
              op |-> "none", context |-> <<>>, ret |-> 0]

GetEntropy ==
    /\ ent.calls < MaxEntCalls
    /\ \E j \in Jitters :
         LET g == get_entropy(harvester, j)
         IN  /\ harvester' = g.harvester
             /\ ent' = [ent EXCEPT !.calls = @ + 1, !.op = "get_entropy",
                                   !.context = <<>>, !.ret = g.buf[1]]
    /\ UNCHANGED miner
    /\ UNCHANGED sched
    /\ UNCHANGED <<secret_key, public_key, messages, signature, last, tags, holder>>

GetHardwareSecret ==
    /\ ent.calls < MaxEntCalls
    /\ \E j \in Jitters, context \in Contexts :
         LET d == get_hardware_secret(harvester, context, j)
         IN  /\ harvester' = d.harvester
             /\ ent' = [ent EXCEPT !.calls = @ + 1, !.op = "get_hardware_secret",
                                   !.context = context, !.ret = d.okm,
                                   !.first[context] =
                                       IF @.some THEN @ ELSE Some(d.okm)]
    /\ UNCHANGED miner
    /\ UNCHANGED sched
    /\ UNCHANGED <<secret_key, public_key, messages, signature, last, tags, holder>>

GetLevel4Entropy ==
    /\ ent.calls < MaxEntCalls
    /\ \E j1 \in Jitters, j2 \in Jitters :
         LET g == get_level4_entropy(harvester, j1, j2)
         IN  /\ harvester' = g.harvester
             /\ ent' = [ent EXCEPT !.calls = @ + 1, !.op = "get_level4_entropy",
                                   !.context = <<>>, !.ret = g.claim]
    /\ UNCHANGED miner
    /\ UNCHANGED sched
    /\ UNCHANGED <<secret_key, public_key, messages, signature, last, tags, holder>>

NextEnt == GetEntropy \/ GetHardwareSecret \/ GetLevel4Entropy

SpecEnt == InitEnt /\ [][NextEnt]_vars

\* C10: within one process, a get_hardware_secret call returns the 32 bytes
\* that the first call with the same context returned, whatever entropy
\* calls happened in between
C10_HardwareSecretStable ==
    ent.op = "get_hardware_secret" => ent.ret = ent.first[ent.context].val

-----------------------------------------------------------------------------
(* Proof specification: the issuer signs, the holder creates a proof or an *)
(* outsider builds one from public values, the verifier verifies, and an   *)
(* accepted proof is presented again with one field changed                *)

\* alias indices are 0 .. MaxAlias
MaxAlias == 1
\* an outsider picks d in 0 .. MaxForgeD
MaxForgeD == 1
\* a changed proof field takes a cell in 0 .. MaxTamperCell
MaxTamperCell == 3
\* initial generator seeds of the proof specification are 0 .. MaxProofSeed
MaxProofSeed == 1

AliasIndices == 0 .. MaxAlias
Nonces == {NoneBytes, SomeBytes(<<5>>)}
BlindingFactors == {NoneBytes, SomeBytes(<<9>>)}
FreshnessClaims == {NoneBytes, SomeBytes(<<3>>)}
VerifierNonces == {<<>>, <<5>>}
VerifierClaims == FreshnessClaims \cup {SomeBytes(<<4>>)}
ProofSite == <<0>>

ProofHarvesters == {h \in Harvesters : h.rng.seed <= MaxProofSeed}
ProofSecretKeys == {<<1>>, <<5>>}
ProofMessageLists == {<<<<0>>, <<2>>>>, <<<<3>>, <<1>>>>, <<<<2>>>>}

\* the subsets of the rust indices 0 .. n-1, each in ascending order
RECURSIVE AscendingSubsets(_)
AscendingSubsets(n) ==
    IF n = 0 THEN {<<>>}
    ELSE LET below == AscendingSubsets(n - 1)
         IN  below \cup {Append(l, n - 1) : l \in below}

\* the verifier inputs that match a proof made for (msgs, revealed_indices, ...)
VerifierArgs(total, revealed_indices, content, nonce_bytes, alias_index, fc) ==
    [total_message_count |-> total,
     revealed_indices |-> revealed_indices,
     revealed_messages_content |-> content,
     nonce |-> nonce_bytes,
     alias_index |-> alias_index,
     freshness_claim |-> fc]

MatchingArgs(msgs, revealed_indices, nonce, alias_index, fc) ==
    VerifierArgs(Len(msgs), revealed_indices,
                 [k \in 1 .. Len(revealed_indices) |-> msgs[revealed_indices[k] + 1]],
                 OptBytes(nonce), alias_index, fc)

\* verifier inputs that differ from args in at most one input
ArgVariants(args) ==
    {args}
    \cup {[args EXCEPT !.revealed_messages_content[k] = m] :
            k \in 1 .. Len(args.revealed_indices), m \in Messages}
    \cup {[args EXCEPT !.revealed_indices = Append(@, args.total_message_count),
                       !.revealed_messages_content = Append(@, m)] : m \in {<<0>>}}
    \cup {[args EXCEPT !.alias_index = a] : a \in AliasIndices}
    \cup {[args EXCEPT !.nonce = n] : n \in VerifierNonces}
    \cup {[args EXCEPT !.freshness_claim = fc] : fc \in VerifierClaims}

verify_call(pk, proof_bytes, args) ==
    verify_proof_safe(pk, proof_bytes, args.total_message_count, args.revealed_indices,
                      args.revealed_messages_content, args.nonce, args.alias_index,
                      args.freshness_claim)

\* proof bytes computed from the public key and the claimed revealed messages
\* alone: A' is the identity and Abar cancels the right-hand side
PublicValuesProof(pk, args, d) ==
    LET h_values == ParseGenerators(pk.slots)
        rhs == PAdd(IF h_values # <<>> THEN PMul(h_values[1], d) ELSE G1_identity,
                    RevealedSum(h_values, args.revealed_indices,
                                MsgScalars(args.revealed_messages_content), 1))
        abar == PSub(G1_identity, rhs)
        c == hash_to_scalar(ChallengeData(G1_identity, abar, d, args.nonce,
                                          G1_to_compressed(G1_identity),
                                          args.alias_index, args.freshness_claim))
    IN  ProofBytes(G1_to_compressed(G1_identity), G1_to_compressed(abar),
                   Scalar_to_bytes(ZERO), Scalar_to_bytes(d), Scalar_to_bytes(c),
                   G1_to_compressed(G1_identity), <<>>)

\* the proofs that differ from p in one field
SingleFieldChanges(p) ==
    LET cells == 0 .. MaxTamperCell IN
    {[p EXCEPT !.a_prime = c] : c \in cells \ {p.a_prime}}
    \cup {[p EXCEPT !.abar = c] : c \in cells \ {p.abar}}
    \cup {[p EXCEPT !.e_tilde = c] : c \in cells \ {p.e_tilde}}
    \cup {[p EXCEPT !.d = c] : c \in cells \ {p.d}}
    \cup {[p EXCEPT !.c = c] : c \in cells \ {p.c}}
    \cup {[p EXCEPT !.linkage_tag = c] : c \in cells \ {p.linkage_tag}}
    \cup {[p EXCEPT !.r_count = n] : n \in (0 .. (p.r_count + 1)) \ {p.r_count}}
    \cup UNION {{[p EXCEPT !.responses[k] = c] : c \in cells \ {p.responses[k]}} :
                    k \in 1 .. Len(p.responses)}

InitProof ==
    /\ harvester \in ProofHarvesters
    /\ secret_key \in ProofSecretKeys
    /\ public_key = PublicKey(G2_to_compressed(PMul(G2_generator, secret_key[1])),
                              <<2, 3, 5>>)
    /\ messages \in ProofMessageLists
    /\ signature = NotCalled
    /\ last = NoCall
    /\ tags = NoTags
    /\ ent = NoEnt
    /\ NoHolder
    /\ NoMiner
    /\ NoThreads

CreateProof ==
    /\ signature.ok
    /\ presentation.by = "none"
    /\ \E revealed_indices \in AscendingSubsets(Len(messages)),
          nonce \in Nonces, alias_index \in AliasIndices,
          blinding_factor \in {NoneBytes}, freshness_claim \in FreshnessClaims,
          j \in Jitters :
         \E r \in {create_proof(harvester, public_key, signature.val, messages,
                                revealed_indices, nonce, ProofSite, alias_index,
                                blinding_factor, freshness_claim, j)} :
             /\ presentation' =
                    [by |-> "create_proof",
                     site_id |-> ProofSite,
                     blinding_factor |-> blinding_factor,
                     args |-> MatchingArgs(messages, revealed_indices, nonce,
                                           alias_index, freshness_claim),
                     ret |-> r.ret]
             /\ presented' = r.ret.val
             /\ harvester' = r.harvester
    /\ UNCHANGED miner
    /\ UNCHANGED sched
    /\ UNCHANGED <<secret_key, public_key, messages, signature, last, tags, ent, accepted>>

ForgeProof ==
    /\ signature.err = "NotCalled"
    /\ presentation.by = "none"
    /\ \E content \in {<<>>, <<<<2>>>>}, nonce \in VerifierNonces,
          d \in 0 .. MaxForgeD :
         LET args == VerifierArgs(Len(messages), [k \in 1 .. Len(content) |-> 0],
                                  content, nonce, 0, NoneBytes)
         IN  /\ presentation' = [by |-> "public values", args |-> args]
             /\ presented' = PublicValuesProof(public_key, args, d)
    /\ UNCHANGED miner
    /\ UNCHANGED sched
    /\ UNCHANGED <<harvester, secret_key, public_key, messages, signature, last, tags,
                   ent, accepted>>

VerifyProof ==
    /\ presented.len > 0
    \* a presentation is verified once, and again once it has been accepted
    /\ IF last.op = "verify_proof_safe"
       THEN last.proof = presented =>
                accepted.some /\ last.proof = accepted.proof /\ last.args = accepted.args
       ELSE TRUE
    /\ \E args \in (IF accepted.some /\ presented # accepted.proof
                    THEN {accepted.args}
                    ELSE ArgVariants(presentation.args)) :
         \E ret \in {verify_call(public_key, presented, args)} :
             /\ last' = [op |-> "verify_proof_safe", proof |-> presented,
                         args |-> args, ret |-> ret]
             /\ accepted' = IF ~accepted.some /\ IsOkTrue(ret) /\ args = presentation.args
                            THEN [some |-> TRUE, proof |-> presented, args |-> args]
                            ELSE accepted
    /\ UNCHANGED miner
    /\ UNCHANGED sched
    /\ UNCHANGED <<harvester, secret_key, public_key, messages, signature, tags, ent,
                   presentation, presented>>

TamperProof ==
    /\ accepted.some
    /\ presented = accepted.proof
    /\ last.proof = accepted.proof /\ last.args = accepted.args
    /\ \E changed \in SingleFieldChanges(presented) : presented' = changed
    /\ UNCHANGED miner
    /\ UNCHANGED sched
    /\ UNCHANGED <<harvester, secret_key, public_key, messages, signature, last, tags,
                   ent, presentation, accepted>>

NextProof == Sign \/ CreateProof \/ ForgeProof \/ VerifyProof \/ TamperProof

SpecProof == InitProof /\ [][NextProof]_vars

-----------------------------------------------------------------------------
(* Claims on the proof                                                     *)

VerifiedProof == last.op = "verify_proof_safe"

\* the presented proof is the one create_proof returned to the holder
ByCreateProof ==
    /\ presentation.by = "create_proof"
    /\ presentation.ret.ok
    /\ last.proof = presentation.ret.val

ValidSignature ==
    signature.ok /\ IsOkTrue(verify_signature_safe(public_key, signature.val, messages))

\* C4: a proof that create_proof returns for a valid signature is accepted
\* by verify_proof_safe called with the matching public key, message count,
\* revealed pairs, nonce, alias_index and freshness_claim
C4_CreatedProofAccepted ==
    (VerifiedProof /\ ByCreateProof /\ ValidSignature /\ last.args = presentation.args)
    => IsOkTrue(last.ret)

\* C5: a proof created over the signed messages is not accepted when a
\* supplied revealed pair (i, x) has x of another SHA-256 digest than message i
C5_WrongRevealedRejected ==
    (VerifiedProof /\ ByCreateProof
        /\ \E k \in 1 .. Len(last.args.revealed_indices) :
             LET i == last.args.revealed_indices[k]
             IN  /\ i < Len(messages)
                 /\ Sha256(last.args.revealed_messages_content[k]) # Sha256(messages[i + 1]))
    => ~IsOkTrue(last.ret)

\* the number of proof fields in which two proofs of one length differ
FieldsChanged(p, q) ==
    Cardinality({f \in {"a_prime", "abar", "e_tilde", "d", "c", "linkage_tag", "r_count"} :
                    p[f] # q[f]})
    + Cardinality({k \in 1 .. Len(p.responses) : p.responses[k] # q.responses[k]})

\* C6: an accepted proof with one field changed, verified with the same
\* verifier inputs, is not accepted
C6_ChangedProofRejected ==
    (VerifiedProof /\ accepted.some /\ last.args = accepted.args
        /\ last.proof.len = accepted.proof.len
        /\ FieldsChanged(last.proof, accepted.proof) = 1)
    => ~IsOkTrue(last.ret)

ChallengeBytes(p, args) ==
    ChallengeData(p.a_prime, p.abar, p.d, args.nonce, p.linkage_tag,
                  args.alias_index, args.freshness_claim)

\* the verifier inputs differ in the alias index, in the freshness claim (the
\* new one not empty) or in the nonce (the new one not empty), and in nothing else
BindingChanged(old, new) ==
    /\ new.total_message_count = old.total_message_count
    /\ new.revealed_indices = old.revealed_indices
    /\ new.revealed_messages_content = old.revealed_messages_content
    /\ \/ new.alias_index # old.alias_index
       \/ new.freshness_claim # old.freshness_claim /\ OptBytes(new.freshness_claim) # <<>>
       \/ new.nonce # old.nonce /\ new.nonce # <<>>

\* C7: an accepted proof is not accepted under another alias index, another
\* non-empty freshness claim or another non-empty nonce, the challenge bytes
\* being different
C7_BoundToAliasClaimNonce ==
    (VerifiedProof /\ accepted.some /\ last.proof = accepted.proof
        /\ BindingChanged(accepted.args, last.args)
        /\ ChallengeBytes(last.proof, last.args) # ChallengeBytes(last.proof, accepted.args))
    => ~IsOkTrue(last.ret)

-----------------------------------------------------------------------------
(* Holder specification: one holder presents a credential twice, and the   *)
(* process calls the entropy service between the two presentations         *)

\* at most MaxBetween entropy-service calls separate the two presentations
MaxBetween == 2
HolderSites == {<<0>>, <<1>>}
HolderMessageLists == {<<<<0>>, <<2>>>>, <<<<1>>>>}

InitHolder ==
    /\ harvester \in ProofHarvesters
    /\ secret_key \in ProofSecretKeys
    /\ public_key = PublicKey(G2_to_compressed(PMul(G2_generator, secret_key[1])),
                              <<2, 3, 5>>)
    /\ messages \in HolderMessageLists
    /\ signature = NotCalled
    /\ last = NoCall
    /\ tags = NoTags
    /\ ent = NoEnt
    /\ NoHolder
    /\ NoMiner
    /\ NoThreads

\* the holder presents: the first call picks the blinding factor argument, the
\* second passes the same one
Present ==
    /\ signature.ok
    /\ last.op = "none"
    /\ \E site_id \in HolderSites, j \in Jitters,
          blinding_factor \in (IF presentation.by = "none" THEN BlindingFactors
                               ELSE {presentation.blinding_factor}) :
         \E r \in {create_proof(harvester, public_key, signature.val, messages, <<>>,
                                NoneBytes, site_id, 0, blinding_factor, NoneBytes, j)} :
             /\ harvester' = r.harvester
             /\ IF presentation.by = "none"
                THEN /\ presentation' =
                            [by |-> "create_proof",
                             site_id |-> site_id,
                             blinding_factor |-> blinding_factor,
                             args |-> MatchingArgs(messages, <<>>, NoneBytes, 0, NoneBytes),
                             ret |-> r.ret]
                     /\ presented' = r.ret.val
                     /\ last' = last
                ELSE /\ last' = [op |-> "create_proof", site_id |-> site_id,
                                 blinding_factor |-> blinding_factor, ret |-> r.ret]
                     /\ UNCHANGED <<presentation, presented>>
    /\ UNCHANGED miner
    /\ UNCHANGED sched
    /\ UNCHANGED <<secret_key, public_key, messages, signature, tags, ent, accepted>>

EntropyCallBetween ==
    /\ presentation.by = "create_proof"
    /\ last.op = "none"
    /\ ent.calls < MaxBetween
    /\ \E j1 \in Jitters, j2 \in Jitters, context \in Contexts :
         harvester' \in {get_entropy(harvester, j1).harvester,
                         get_hardware_secret(harvester, context, j1).harvester,
                         get_level4_entropy(harvester, j1, j2).harvester}
    /\ ent' = [calls |-> ent.calls + 1]
    /\ UNCHANGED miner
    /\ UNCHANGED sched
    /\ UNCHANGED <<secret_key, public_key, messages, signature, last, tags, holder>>

NextHolder == Sign \/ Present \/ EntropyCallBetween

SpecHolder == InitHolder /\ [][NextHolder]_vars

\* two proofs were created for one site with the same blinding factor argument
TwoProofsOneSite ==
    /\ last.op = "create_proof"
    /\ presentation.ret.ok /\ last.ret.ok
    /\ last.site_id = presentation.site_id
    /\ last.blinding_factor = presentation.blinding_factor

\* C9: two create_proof calls of one holder for one site_id put the same
\* linkage tag in their proofs, with the same blinding factor passed to both
\* and with none passed to either, whatever entropy calls lie between them
C9_SameSiteSameTag ==
    TwoProofsOneSite => last.ret.val.linkage_tag = presentation.ret.val.linkage_tag

\* what does hold: the tag is the same when a blinding factor is passed
BlindedTagStable ==
    (TwoProofsOneSite /\ presentation.blinding_factor.some)
    => last.ret.val.linkage_tag = presentation.ret.val.linkage_tag

-----------------------------------------------------------------------------
(* Miner specification: submissions to one MinerEngine                     *)

\* at most MaxSubmits submit_macro_data calls are made
MaxSubmits == 31
\* a buffer holds at most MaxRepeats points of identities that are buffered already
MaxRepeats == 1
\* the clock advances at most MaxTicks seconds
MaxTicks == 1
\* the noise generator starts in one of the states 0 .. MaxNoiseSeed
MaxNoiseSeed == 1

Categories ==
    {"HIV_STATUS", "POLITICAL_AFFILIATION", "AGE_BRACKET", "ZIP_CODE", "GENDER", "INCOME"}

\* the categories one behaviour submits to
ActiveSets ==
    {{c} : c \in Categories} \cup {{"ZIP_CODE", "INCOME"}, {"HIV_STATUS", "GENDER"}}

Epsilons == {1, -1}

\* the value an identity reports
ReportedValue(identity) == identity[1] % 3

\* the vault faults of a release of n points: none, the first or the second
\* insert, the flush
FaultPoints(n) == {0, 1, 2, n + 1}

BufferOf(category) ==
    IF category \in DOMAIN engine.buffers
    THEN engine.buffers[category] ELSE AnonymityBuffer_new(category)

\* the identities that submit next to a category: one not buffered yet, or,
\* in a behaviour of one category, the first one again
NextIdentities(category) ==
    LET buffer == BufferOf(category)
        n == unique_count(buffer)
    IN  {<<n>>} \cup (IF /\ n > 0
                         /\ Cardinality(DOMAIN since) = 1
                         /\ Len(buffer.data_points) - n < MaxRepeats
                      THEN {<<0>>} ELSE {})

\* the call drains the buffer: only then are the noise seed and the vault fault read
Drains(category, identity) ==
    unique_count(add_data_point(BufferOf(category),
                                MacroDataPoint(category, 0, clock, hash_identity(identity))))
        >= get_dynamic_threshold(category)

NoiseSeeds(category, identity) ==
    IF Drains(category, identity) THEN 0 .. MaxNoiseSeed ELSE {0}

Faults(category, identity) ==
    IF Drains(category, identity)
    THEN FaultPoints(Len(BufferOf(category).data_points) + 1) ELSE {0}

InitMiner ==
    /\ harvester \in {h \in Harvesters : h.rng.seed = 0}
    /\ IdleIssuer
    /\ NoHolder
    /\ tags = NoTags
    /\ ent = NoEnt
    /\ engine \in {MinerEngine_new(epsilon) : epsilon \in Epsilons}
    /\ clock = StartTime
    /\ since \in {[c \in active |-> {}] : active \in ActiveSets}
    /\ submits = 0
    /\ submitted = <<>>
    /\ released = <<>>
    /\ drains = <<>>
    /\ NoThreads

Submit ==
    /\ submits < MaxSubmits
    /\ \E category \in DOMAIN since :
       \E identity \in NextIdentities(category) :
       \E seed \in NoiseSeeds(category, identity), fail_at \in Faults(category, identity) :
       \E r \in {submit_macro_data(engine, category, ReportedValue(identity), identity,
                                   clock, seed, fail_at)} :
         /\ engine' = r.engine
         /\ last' = [op |-> "submit_macro_data", category |-> category,
                     identity |-> identity, ret |-> r.ret, stored |-> r.stored,
                     window |-> since[category] \cup {hash_identity(identity)},
                     before |-> BufferOf(category)]
         /\ since' = [since EXCEPT ![category] =
                        IF (r.ret.ok /\ r.ret.val.some) \/ r.stored # <<>>
                        THEN {} ELSE @ \cup {hash_identity(identity)}]
    /\ submits' = submits + 1
    /\ UNCHANGED <<harvester, secret_key, public_key, messages, signature, tags, ent,
                   holder, clock, submitted, released, drains>>
    /\ UNCHANGED sched

\* time passes while nothing is buffered
Tick ==
    /\ clock < StartTime + MaxTicks
    /\ \A c \in DOMAIN engine.buffers : engine.buffers[c].data_points = <<>>
    /\ clock' = clock + 1
    /\ UNCHANGED <<harvester, secret_key, public_key, messages, signature, last, tags,
                   ent, holder, engine, since, submits, submitted, released, drains>>
    /\ UNCHANGED sched

NextMiner == Submit \/ Tick

SpecMiner == InitMiner /\ [][NextMiner]_vars

\* the thresholds of the k-anonymity gate, by category
GateThreshold(category) ==
    IF category \in {"HIV_STATUS", "POLITICAL_AFFILIATION"} THEN 30
    ELSE IF category \in {"AGE_BRACKET", "ZIP_CODE"} THEN 20
    ELSE 15

\* the points the last submit_macro_data call returned
Returned ==
    IF last.ret.ok /\ last.ret.val.some THEN last.ret.val.val ELSE <<>>

PointsOut == {Returned[i] : i \in 1 .. Len(Returned)}
                \cup {last.stored[i] : i \in 1 .. Len(last.stored)}

\* C1: a submit_macro_data call returns points or writes points to the vault
\* only for the category submitted to, and only when at least T distinct
\* identity hashes were submitted to it since its previous release, T being
\* 30, 20 or 15 by category
C1_KAnonymityGate ==
    (last.op = "submit_macro_data" /\ PointsOut # {})
    => /\ Cardinality(last.window) >= GateThreshold(last.category)
       /\ \A point \in PointsOut : point.category = last.category

\* a release of 31 points of 30 identities, one of which submitted twice
C1_ReleaseAtThirty ==
    /\ last.op = "submit_macro_data"
    /\ last.category = "HIV_STATUS"
    /\ Len(Returned) = 31
    /\ Len(last.stored) = 31
    /\ Cardinality(last.window) = 30

-----------------------------------------------------------------------------
(* Wire specification: a verifier is handed arbitrary proof bytes           *)

\* the r_count fields tried are 0 .. 2, 11 .. MaxWireCount and the largest u32
MaxWireCount == 13
\* the total_message_count values tried are 0 .. MaxWireTotal and the three
\* around the largest usize
MaxWireTotal == 2

WireResponseCounts == (0 .. 2) \cup (11 .. MaxWireCount) \cup {U32Modulus - 1}
WireTotals ==
    (0 .. MaxWireTotal)
    \cup {UsizeModulus - ResponseSlack - 1, UsizeModulus - ResponseSlack, UsizeModulus - 1}

\* proof lengths around the 196-byte check, the 244-byte prefix and the tail
WireLengths ==
    {0, 195, 196, 239, 240, 243, 244, 275, 276, 244 + 32 * 11, 244 + 32 * 12}

\* the response cells: a canonical scalar and one that is not
WireResponseCells == {0, 20}

\* public keys handed to the verifier: two that parse and one whose w does not
WireKeys ==
    {PublicKey(G2_to_compressed(PMul(G2_generator, 5)), <<2, 3, 5>>),
     PublicKey(G2_to_compressed(PMul(G2_generator, 1)), <<6, 7>>),
     PublicKey(20, <<2, 3, 5>>)}

WireArgs(total) == VerifierArgs(total, <<>>, <<>>, <<>>, 0, NoneBytes)

\* the fixed fields: those of a proof that passes both checks, and that proof
\* with the challenge, a scalar or a point replaced
WireFields(pk, total) ==
    LET p == PublicValuesProof(pk, WireArgs(total), 0) IN
    {p, [p EXCEPT !.c = SAdd(p.c, ONE)], [p EXCEPT !.e_tilde = 20],
     [p EXCEPT !.a_prime = 20]}

\* proof bytes of the given length: below 244 bytes there is no whole r_count
\* field and no response
WireProof(fields, len, r_count, cell) ==
    [fields EXCEPT
        !.len = len,
        !.r_count = IF len >= 244 THEN r_count ELSE 0,
        !.responses = IF len >= 244
                      THEN [k \in 1 .. ((len - 244) \div 32) |-> cell]
                      ELSE <<>>]

InitWire ==
    /\ harvester \in {h \in Harvesters : h.rng.seed = 0}
    /\ secret_key = <<>>
    /\ public_key \in WireKeys
    /\ messages = <<>>
    /\ signature = NotCalled
    /\ last = NoCall
    /\ tags = NoTags
    /\ ent = NoEnt
    /\ NoHolder
    /\ NoMiner
    /\ NoThreads

\* some party builds proof bytes for a verification with total_message_count
CraftProof ==
    /\ presentation.by = "none"
    /\ \E total \in WireTotals, len \in WireLengths,
          r_count \in WireResponseCounts, cell \in WireResponseCells :
         \E fields \in WireFields(public_key, total) :
             /\ presentation' = [by |-> "wire", args |-> WireArgs(total)]
             /\ presented' = WireProof(fields, len, r_count, cell)
    /\ UNCHANGED miner
    /\ UNCHANGED sched
    /\ UNCHANGED <<harvester, secret_key, public_key, messages, signature, last, tags,
                   ent, accepted>>

\* the verifier calls verify_proof_safe on the bytes
VerifyWire ==
    /\ presentation.by = "wire"
    /\ last.op = "none"
    /\ LET args == presentation.args IN
       \E ret \in verify_proof_outcomes(public_key, presented, args.total_message_count,
                                        args.revealed_indices,
                                        args.revealed_messages_content, args.nonce,
                                        args.alias_index, args.freshness_claim) :
           last' = [op |-> "verify_proof_safe", proof |-> presented, args |-> args,
                    ret |-> ret,
                    capacity |-> IF ret.err = "Panic" THEN 0
                                 ELSE response_capacity(public_key, presented,
                                                        args.total_message_count,
                                                        args.revealed_indices,
                                                        args.revealed_messages_content)]
    /\ UNCHANGED miner
    /\ UNCHANGED sched
    /\ UNCHANGED <<harvester, secret_key, public_key, messages, signature, tags, ent,
                   presentation, presented, accepted>>

\* signature bytes handed to a verifier: points and scalars that decode, some
\* that do not, and a short signature
WireSignatures ==
    {[len |-> len, a |-> a, e |-> e, s |-> sc] :
        len \in {112, 111}, a \in {0, 4, 20}, e \in {0, 10, 20}, sc \in {7, 20}}

\* the verifier calls verify_signature_safe on signature bytes and messages
VerifyWireSignature ==
    /\ presentation.by = "none"
    /\ last.op = "none"
    /\ \E sig \in WireSignatures, msgs \in MessageLists :
         last' = [op |-> "verify_signature_safe", signature |-> sig, messages |-> msgs,
                  ret |-> verify_signature_safe(public_key, sig, msgs)]
    /\ presentation' = [by |-> "wire signature"]
    /\ UNCHANGED miner
    /\ UNCHANGED sched
    /\ UNCHANGED <<harvester, secret_key, public_key, messages, signature, tags, ent,
                   presented, accepted>>

NextWire == CraftProof \/ VerifyWire \/ VerifyWireSignature

SpecWire == InitWire /\ [][NextWire]_vars

WireVerified == last.op = "verify_proof_safe" /\ presentation.by = "wire"

ParseableKey == public_key.len >= 96 /\ G2_from_compressed(public_key.w).some

C12_ShortProofRejected ==
    (/\ WireVerified /\ ParseableKey
     /\ \/ last.proof.len < 244
        \/ last.proof.len < 244 + 32 * last.proof.r_count)
    => (~last.ret.ok /\ last.ret.err = "InvalidSignature")

\* a proof shorter than 196 bytes, or one with the whole prefix and a short
\* tail, gives Err(InvalidSignature) whenever total_message_count + 10 fits
ShortProofRejectedOutsidePrefixGap ==
    (/\ WireVerified /\ ParseableKey
     /\ ~usize_add_overflows(last.args.total_message_count, ResponseSlack)
     /\ \/ last.proof.len < 196
        \/ last.proof.len >= 244 /\ last.proof.len < 244 + 32 * last.proof.r_count)
    => (~last.ret.ok /\ last.ret.err = "InvalidSignature")

-----------------------------------------------------------------------------
(* Recovery specification: a secret is split and reconstructed              *)

\* split_secret makes up to MaxShares shares
MaxShares == 4
\* with a threshold of up to MaxThreshold
MaxThreshold == 3

\* secrets: canonical cells, a cell that is no canonical scalar, a wrong length
ShamirSecrets == {<<0>>, <<3>>, <<12>>, <<ScalarModulus>>, <<>>}
\* the values Scalar::random returns
CoeffCells == {0, 1, 7}
RandomLists(len) == [1 .. len -> CoeffCells]

\* the positions of the shares handed to reconstruction: every subset in
\* ascending and in descending order, and the subsets with a share repeated
SharePositions(count) ==
    LET ascending == {[i \in 1 .. Len(l) |-> l[i] + 1] : l \in AscendingSubsets(count)}
    IN  ascending
        \cup {[i \in 1 .. Len(l) |-> l[Len(l) + 1 - i]] : l \in ascending}
        \cup {Append(l, l[1]) : l \in {a \in ascending : Len(a) = 1 \/ Len(a) = 2}}

SelectShares(shares, positions) == [i \in 1 .. Len(positions) |-> shares[positions[i]]]

DistinctPositions(positions) ==
    \A i, j \in 1 .. Len(positions) : positions[i] = positions[j] => i = j

\* what may have happened to the last share bytes handed to
\* reconstruct_secret_safe: nothing, a byte lost, or a scalar that is not canonical
ShareDamages(shares) == IF shares = <<>> THEN {"none"} ELSE {"none", "length", "scalar"}

DamageShares(shares, damage) ==
    IF damage = "length" THEN [shares EXCEPT ![Len(shares)].len = 32]
    ELSE IF damage = "scalar" THEN [shares EXCEPT ![Len(shares)].s = ScalarModulus]
    ELSE shares

InitShamir ==
    /\ harvester \in {h \in Harvesters : h.rng.seed = 0}
    /\ secret_key \in ShamirSecrets
    /\ public_key = PublicKey(G2_to_compressed(G2_generator), <<>>)
    /\ messages = <<>>
    /\ signature = NotCalled
    /\ last = NoCall
    /\ tags = NoTags
    /\ ent = NoEnt
    /\ NoHolder
    /\ NoMiner
    /\ NoThreads

SplitSecret ==
    /\ presentation.by = "none"
    /\ secret_key # <<>> /\ Scalar_from_bytes(secret_key[1]).some
    /\ \E n \in 0 .. MaxShares, k \in 0 .. MaxThreshold :
         \E random \in RandomLists(IF k >= 1 THEN k - 1 ELSE 0) :
             /\ presentation' = [by |-> "split_secret", n |-> n, k |-> k,
                                 random |-> random,
                                 shares |-> split_secret(secret_key[1], n, k, random)]
             /\ presented' = NoBytes
    /\ UNCHANGED miner
    /\ UNCHANGED sched
    /\ UNCHANGED <<harvester, secret_key, public_key, messages, signature, last, tags,
                   ent, accepted>>

ReconstructSecret ==
    /\ presentation.by = "split_secret"
    /\ last.op = "none"
    /\ \E positions \in SharePositions(Len(presentation.shares)) :
         last' = [op |-> "reconstruct_secret", positions |-> positions,
                  ret |-> reconstruct_secret(SelectShares(presentation.shares, positions))]
    /\ UNCHANGED miner
    /\ UNCHANGED sched
    /\ UNCHANGED <<harvester, secret_key, public_key, messages, signature, tags, ent,
                   presentation, presented, accepted>>

SplitSecretSafe ==
    /\ presentation.by = "none"
    /\ \E threshold \in 0 .. MaxThreshold, total \in 0 .. MaxShares :
         \E random \in RandomLists(IF total >= 1 THEN total - 1 ELSE 0) :
             /\ presentation' = [by |-> "split_secret_safe", threshold |-> threshold,
                                 total |-> total, random |-> random,
                                 ret |-> split_secret_safe(secret_key, threshold, total,
                                                           random)]
             /\ presented' = NoBytes
    /\ UNCHANGED miner
    /\ UNCHANGED sched
    /\ UNCHANGED <<harvester, secret_key, public_key, messages, signature, last, tags,
                   ent, accepted>>

ReconstructSecretSafe ==
    /\ presentation.by = "split_secret_safe"
    /\ presentation.ret.ok
    /\ last.op = "none"
    /\ \E positions \in SharePositions(Len(presentation.ret.val)) :
         \E damage \in ShareDamages(positions) :
             last' = [op |-> "reconstruct_secret_safe", positions |-> positions,
                      damage |-> damage,
                      ret |-> reconstruct_secret_safe(
                                  DamageShares(SelectShares(presentation.ret.val, positions),
                                               damage))]
    /\ UNCHANGED miner
    /\ UNCHANGED sched
    /\ UNCHANGED <<harvester, secret_key, public_key, messages, signature, tags, ent,
                   presentation, presented, accepted>>

NextShamir == SplitSecret \/ ReconstructSecret \/ SplitSecretSafe \/ ReconstructSecretSafe

SpecShamir == InitShamir /\ [][NextShamir]_vars

\* C13: any k distinct shares of split_secret(secret, n, k), n >= k >= 1,
\* reconstruct the secret; for k >= 2 the value reconstructed from k - 1
\* distinct shares differs from the secret for some choice of the coefficients
C13_ShamirReconstructs ==
    (/\ last.op = "reconstruct_secret"
     /\ presentation.n >= presentation.k /\ presentation.k >= 1
     /\ DistinctPositions(last.positions))
    => /\ Len(last.positions) = presentation.k => last.ret = Ok(secret_key[1])
       /\ (presentation.k >= 2 /\ Len(last.positions) = presentation.k - 1)
          => \E random \in RandomLists(presentation.k - 1) :
                reconstruct_secret(
                    SelectShares(split_secret(secret_key[1], presentation.n,
                                              presentation.k, random),
                                 last.positions)) # Ok(secret_key[1])

C13_ThreeOfFour ==
    /\ last.op = "reconstruct_secret"
    /\ presentation.n = 4 /\ presentation.k = 3
    /\ presentation.random = <<1, 7>>
    /\ last.positions = <<4, 3, 2>>
    /\ secret_key = <<12>>
    /\ last.ret = Ok(12)

\* C14: for a canonical secret and 1 <= threshold <= total, split_secret_safe
\* returns total shares of 33 bytes with the indices 1 .. total, and
\* reconstruct_secret_safe of any threshold of them returns the secret bytes
C14_SafeRoundTrip ==
    (/\ presentation.by = "split_secret_safe"
     /\ secret_key # <<>> /\ Scalar_from_bytes(secret_key[1]).some
     /\ 1 <= presentation.threshold /\ presentation.threshold <= presentation.total)
    => /\ presentation.ret.ok
       /\ Len(presentation.ret.val) = presentation.total
       /\ \A i \in 1 .. Len(presentation.ret.val) :
             presentation.ret.val[i].len = 33 /\ presentation.ret.val[i].idx = i
       /\ (/\ last.op = "reconstruct_secret_safe"
           /\ last.damage = "none"
           /\ DistinctPositions(last.positions)
           /\ Len(last.positions) = presentation.threshold)
          => last.ret = Ok(secret_key)

\* when threshold = total the shares are total many and all of them give the
\* secret back
SafeRoundTripAllShares ==
    (/\ presentation.by = "split_secret_safe"
     /\ secret_key # <<>> /\ Scalar_from_bytes(secret_key[1]).some
     /\ 1 <= presentation.threshold /\ presentation.threshold = presentation.total)
    => /\ presentation.ret.ok
       /\ Len(presentation.ret.val) = presentation.total
       /\ (/\ last.op = "reconstruct_secret_safe"
           /\ last.damage = "none"
           /\ DistinctPositions(last.positions)
           /\ Len(last.positions) = presentation.threshold)
          => last.ret = Ok(secret_key)

-----------------------------------------------------------------------------
(* Vault specification: releases of one category, the vault and its queries *)

\* submitted values are ValueSpacing apart, more than the noise can move them
ValueSpacing == 10
\* the clock advances only while every buffer holds at most MaxBufferedAtTick
\* identities
MaxBufferedAtTick == 1

\* the categories of the vault behaviours, one per behaviour
VaultCategories == {"GENDER", "ZIP_CODE"}

\* the value of the submission made after ordinal earlier ones
SubmissionValue(ordinal) == ValueSpacing * ordinal

\* the submission a released or stored point came from, read from its value
PointOrdinal(point) == (point.value + 1) \div ValueSpacing

\* the vault as sled::open finds it: new, or holding a point of an earlier release
OpenedVaults ==
    {EmptyMap,
     vault_insert(EmptyMap, vault_key(MacroDataPoint("INCOME", 5, 3600, String_new)),
                  serde_json_to_vec(MacroDataPoint("INCOME", 5, 3600, String_new)))}

\* the identities that submit next: one not buffered yet, or the first one
\* again right after its first submission
LoggedIdentities(category) ==
    LET buffer == BufferOf(category)
        n == unique_count(buffer)
    IN  {<<n>>} \cup (IF n = 1 /\ Len(buffer.data_points) - n < MaxRepeats
                      THEN {<<0>>} ELSE {})

\* the timestamp ranges queried
QueryRanges == {<<0, 2 * StartTime>>, <<3600, 3600>>, <<7200, 2 * StartTime>>}

InitVault ==
    /\ harvester \in {h \in Harvesters : h.rng.seed = 0}
    /\ IdleIssuer
    /\ NoHolder
    /\ tags = NoTags
    /\ ent = NoEnt
    /\ engine \in {[MinerEngine_new(1) EXCEPT !.vault = v] : v \in OpenedVaults}
    /\ clock = StartTime
    /\ since \in {[c \in {category} |-> {}] : category \in VaultCategories}
    /\ submits = 0
    /\ submitted = <<>>
    /\ released = <<>>
    /\ drains = <<>>
    /\ NoThreads

SubmitLogged ==
    /\ submits < MaxSubmits
    /\ \E category \in DOMAIN since :
       \E identity \in LoggedIdentities(category) :
       \E seed \in NoiseSeeds(category, identity), fail_at \in Faults(category, identity) :
       \E r \in {submit_macro_data(engine, category, SubmissionValue(submits), identity,
                                   clock, seed, fail_at)} :
         /\ engine' = r.engine
         /\ last' = [op |-> "submit_macro_data", category |-> category,
                     identity |-> identity, ret |-> r.ret, stored |-> r.stored,
                     window |-> since[category] \cup {hash_identity(identity)},
                     before |-> BufferOf(category)]
         /\ since' = [since EXCEPT ![category] =
                        IF (r.ret.ok /\ r.ret.val.some) \/ r.stored # <<>>
                        THEN {} ELSE @ \cup {hash_identity(identity)}]
         /\ submitted' = Append(submitted,
                                MacroDataPoint(category, SubmissionValue(submits), clock,
                                               hash_identity(identity)))
         /\ released' = IF r.ret.ok /\ r.ret.val.some
                        THEN Append(released, r.ret.val.val) ELSE released
         /\ drains' = IF Drains(category, identity)
                      THEN Append(drains, [category |-> category, ordinal |-> submits])
                      ELSE drains
    /\ submits' = submits + 1
    /\ UNCHANGED <<harvester, secret_key, public_key, messages, signature, tags, ent,
                   holder, clock>>
    /\ UNCHANGED sched

TickBuffered ==
    /\ clock < StartTime + MaxTicks
    /\ \A c \in DOMAIN engine.buffers :
          unique_count(engine.buffers[c]) <= MaxBufferedAtTick
    /\ clock' = clock + 1
    /\ UNCHANGED <<harvester, secret_key, public_key, messages, signature, last, tags,
                   ent, holder, engine, since, submits, submitted, released, drains>>
    /\ UNCHANGED sched

\* the vault is queried after a call that released
QueryVault ==
    /\ last.op = "submit_macro_data"
    /\ (last.ret.ok /\ last.ret.val.some) \/ last.stored # <<>>
    /\ \E range \in QueryRanges :
         last' = [op |-> "query_vault", category |-> last.category,
                  start_timestamp |-> range[1], end_timestamp |-> range[2],
                  batch |-> IF last.ret.ok /\ last.ret.val.some
                            THEN last.ret.val.val ELSE <<>>,
                  ret |-> query_vault(engine.vault, last.category, range[1], range[2])]
    /\ UNCHANGED <<harvester, secret_key, public_key, messages, signature, tags, ent,
                   holder, engine, clock, since, submits, submitted, released, drains>>
    /\ UNCHANGED sched

NextVault == SubmitLogged \/ TickBuffered \/ QueryVault

SpecVault == InitVault /\ [][NextVault]_vars

\* the points of the released batches and the points in the vault that the
\* submissions of this behaviour put there
ReleasedPoints ==
    UNION {{released[b][i] : i \in 1 .. Len(released[b])} : b \in 1 .. Len(released)}

VaultPoints ==
    {serde_json_from_slice(engine.vault[key]) : key \in DOMAIN engine.vault}

FlooredToHour(point) ==
    /\ point.timestamp % HourSeconds = 0
    /\ point.category \in DOMAIN since
       => /\ PointOrdinal(point) < Len(submitted)
          /\ point.timestamp =
                (submitted[PointOrdinal(point) + 1].timestamp \div HourSeconds) * HourSeconds

BatchInRange ==
    /\ last.op = "query_vault"
    /\ last.batch # <<>>
    /\ \A i \in 1 .. Len(last.batch) :
          /\ last.batch[i].timestamp >= last.start_timestamp
          /\ last.batch[i].timestamp <= last.end_timestamp

\* C16: after a release, a query of the category over a range that includes
\* the batch's timestamps returns every point of the batch
C16_ReleasedBatchQueryable ==
    BatchInRange
    => /\ last.ret.ok
       /\ Len(last.ret.val) >= Len(last.batch)
       /\ \A i \in 1 .. Len(last.batch) :
             \E j \in 1 .. Len(last.ret.val) : last.ret.val[j] = last.batch[i]

\* of the points of the batch that share a key, the one released last is
\* returned by the query
NewestOfEachKeyQueryable ==
    BatchInRange
    => /\ last.ret.ok
       /\ \A i \in 1 .. Len(last.batch) :
             (\A k \in (i + 1) .. Len(last.batch) :
                  vault_key(last.batch[k]) # vault_key(last.batch[i]))
             => \E j \in 1 .. Len(last.ret.val) : last.ret.val[j] = last.batch[i]

\* C17: a released batch lists its points in submission order, and the points
\* of an earlier batch were all submitted before those of a later batch
C17_ReleasedInSubmissionOrder ==
    /\ \A b \in 1 .. Len(released) :
          \A i, j \in 1 .. Len(released[b]) :
              i < j => PointOrdinal(released[b][i]) < PointOrdinal(released[b][j])
    /\ \A b, c \in 1 .. Len(released) :
          (b < c /\ released[b][1].category = released[c][1].category)
          => \A i \in 1 .. Len(released[b]), j \in 1 .. Len(released[c]) :
                PointOrdinal(released[b][i]) < PointOrdinal(released[c][j])
    /\ \A point \in ReleasedPoints :
          /\ PointOrdinal(point) < Len(submitted)
          /\ submitted[PointOrdinal(point) + 1].category = point.category

C17_TwoBatches ==
    /\ Len(released) = 2
    /\ Len(released[1]) = 16
    /\ Len(released[2]) = 15
    /\ released[1][1].category = "GENDER"
    /\ PointOrdinal(released[2][15]) = 30

-----------------------------------------------------------------------------
(* Delegation specification: an anchor signs a token, a verifier checks it  *)

\* expiration and tier of a token are in 0 .. MaxTokenField
MaxTokenField == 1

\* anchor ids of 32 bytes, and of 16 and 48 bytes
AnchorIds == {<<1, 2>>, <<4, 2>>, <<1>>, <<1, 2, 3>>}
\* mobile keys of 96 bytes, and of 112 and 80 bytes
MobileKeys ==
    {<<3, 0, 0, 0, 0, 0>>, <<5, 0, 0, 0, 0, 0>>, <<2, 3, 0, 0, 0, 0, 0>>,
     <<0, 0, 0, 0, 0>>}

Tokens ==
    {DelegationToken(anchor_id, mobile_key, expiration, tier, 0, 7) :
        anchor_id \in AnchorIds, mobile_key \in MobileKeys,
        expiration \in 0 .. MaxTokenField, tier \in 0 .. MaxTokenField}

\* the tokens a signature is made for
SignedTokens == {t \in Tokens : t.expiration = 0}

\* anchor keys: canonical scalars, and a cell that is no canonical scalar
AnchorSecretKeys == {<<1>>, <<5>>, <<ScalarModulus>>}

\* public keys of w and two generators, one with a slot that is no point, and
\* one that is too short
AnchorKeysOf(sk_bytes) ==
    LET w == G2_to_compressed(PMul(G2_generator, sk_bytes[1] % ScalarModulus))
    IN  {PublicKey(w, <<2, 3>>), PublicKey(w, <<2, 20>>), PublicKey(w, <<2>>)}

\* the values Scalar::random returns for s
DelegationDrawsS == {0, 4}

InitDelegation ==
    /\ harvester \in {h \in Harvesters : h.rng.seed = 0}
    /\ secret_key \in AnchorSecretKeys
    /\ public_key \in AnchorKeysOf(secret_key)
    /\ messages = <<>>
    /\ signature = NotCalled
    /\ last = NoCall
    /\ tags = NoTags
    /\ ent = NoEnt
    /\ NoHolder
    /\ NoMiner
    /\ NoThreads

SignDelegation ==
    /\ signature.err = "NotCalled"
    /\ \E token \in SignedTokens, e \in Scalars, s \in DelegationDrawsS :
         /\ signature' = sign_delegation(secret_key, public_key, token, e, s)
         /\ presentation' = [by |-> "sign_delegation", token |-> token]
    /\ UNCHANGED miner
    /\ UNCHANGED sched
    /\ UNCHANGED <<harvester, secret_key, public_key, messages, last, tags, ent,
                   presented, accepted>>

VerifyDelegation ==
    /\ signature.ok
    /\ last.op = "none"
    /\ \E token \in Tokens :
         last' = [op |-> "verify_delegation_signature", token |-> token,
                  ret |-> verify_delegation_signature(public_key, token, signature.val)]
    /\ UNCHANGED miner
    /\ UNCHANGED sched
    /\ UNCHANGED <<harvester, secret_key, public_key, messages, signature, tags, ent,
                   holder>>

NextDelegation == SignDelegation \/ VerifyDelegation

SpecDelegation == InitDelegation /\ [][NextDelegation]_vars

\* sk is canonical, w = g2 * sk and the key holds two generators
ValidAnchorKeyPair ==
    /\ Scalar_from_bytes(secret_key[1]).some
    /\ delegation_generators(public_key).some

DelegationSigned == presentation.by = "sign_delegation"

DelegationVerified == DelegationSigned /\ last.op = "verify_delegation_signature"

\* C18: for a valid key pair, sign_delegation returns a signature, and
\* verify_delegation_signature returns Ok(true) for it and the signed token
C18_DelegationRoundTrip ==
    (DelegationSigned /\ ValidAnchorKeyPair)
    => /\ signature.ok
       /\ (DelegationVerified /\ last.token = presentation.token) => IsOkTrue(last.ret)

\* every signature that sign_delegation returns verifies for the signed token
DelegationVerifiesWhenSigned ==
    (DelegationVerified /\ ValidAnchorKeyPair /\ last.token = presentation.token)
    => IsOkTrue(last.ret)

\* C19: the bytes hashed for a token are 145 many; tokens that differ in a
\* field are hashed from different bytes, and a signature made for one token
\* is not accepted for another
C19_TokenBytesCanonical ==
    /\ (DelegationSigned /\ signature.ok) => to_bytes_len(presentation.token) = 145
    /\ (DelegationVerified /\ last.ret.ok) => to_bytes_len(last.token) = 145
    /\ (DelegationVerified /\ last.token # presentation.token)
       => /\ to_bytes(last.token) # to_bytes(presentation.token)
          /\ ~IsOkTrue(last.ret)

\* a signature is not accepted for a token whose scalar differs
OtherTokenScalarRejected ==
    (/\ DelegationVerified /\ ValidAnchorKeyPair
     /\ token_scalar(last.token) # token_scalar(presentation.token))
    => ~IsOkTrue(last.ret)

-----------------------------------------------------------------------------
(* Error handling of the verifiers, checked under the wire specification    *)

\* signature bytes of the right length whose point and scalars decode
WellFormedSignature(sig) ==
    /\ sig.len = 112
    /\ G1_from_compressed(sig.a).some
    /\ Scalar_from_bytes(sig.e).some
    /\ Scalar_from_bytes(sig.s).some

\* proof bytes with the whole prefix and tail, fields that decode, and a
\* response count of at most total_message_count + 10
WellFormedProof(proof, total_message_count) ==
    /\ proof.len >= 244 + 32 * proof.r_count
    /\ proof.r_count <= total_message_count + ResponseSlack
    /\ G1_from_compressed(proof.a_prime).some
    /\ G1_from_compressed(proof.abar).some
    /\ Scalar_from_bytes(proof.e_tilde).some
    /\ Scalar_from_bytes(proof.d).some
    /\ Scalar_from_bytes(proof.c).some
    /\ G1_from_compressed(proof.linkage_tag).some
    /\ \A k \in 1 .. proof.r_count : Scalar_from_bytes(proof.responses[k]).some

ChallengeDiffers(proof, args) ==
    proof.c # hash_to_scalar(ChallengeData(proof.a_prime, proof.abar, proof.d, args.nonce,
                                           proof.linkage_tag, args.alias_index,
                                           args.freshness_claim))

WellFormedSignatureCall ==
    /\ last.op = "verify_signature_safe"
    /\ ParseableKey
    /\ Len(ParseGenerators(public_key.slots)) >= Len(last.messages) + 1
    /\ WellFormedSignature(last.signature)

WellFormedProofCall ==
    /\ WireVerified
    /\ ParseableKey
    /\ WellFormedProof(last.proof, last.args.total_message_count)

\* C20: for well-formed inputs verify_signature_safe and verify_proof_safe
\* return Ok(true) or Ok(false), and verify_proof_safe returns Ok(false) when
\* the recomputed challenge differs from the challenge in the proof
C20_NoErrorOnInequality ==
    /\ WellFormedSignatureCall => last.ret.ok
    /\ WellFormedProofCall
       => /\ last.ret.ok
          /\ ChallengeDiffers(last.proof, last.args) => IsOkFalse(last.ret)

\* the same while total_message_count + 10 fits a usize
NoErrorOnInequalityWithoutOverflow ==
    /\ WellFormedSignatureCall => last.ret.ok
    /\ (/\ WellFormedProofCall
        /\ ~usize_add_overflows(last.args.total_message_count, ResponseSlack))
       => /\ last.ret.ok
          /\ ChallengeDiffers(last.proof, last.args) => IsOkFalse(last.ret)

-----------------------------------------------------------------------------
(* Public-key parsing of sign and verify_signature_safe, checked under the  *)
(* signature specification                                                  *)

\* the generator that sign and verify_signature_safe multiply message i by
\* (i counted from 0): h_values[i + 1]
message_generator(pk, i) == ParseGenerators(pk.slots)[i + 2]

\* the 48-byte generator slots of a public key that hold no G1 point
InvalidSlots(pk) == {k \in 1 .. Len(pk.slots) : ~G1_from_compressed(pk.slots[k]).some}

\* a public key that is too short, has a slot that is no G1 point, or
\* carries fewer than |msgs| + 1 generator slots
MalformedPublicKey(pk, msgs) ==
    \/ pk.len < 96
    \/ InvalidSlots(pk) # {}
    \/ Len(pk.slots) < Len(msgs) + 1

SignCalled == signature.err # "NotCalled"

\* C21: sign and verify_signature_safe return Err(InvalidKey) for a public
\* key that is shorter than 96 bytes, has a generator slot that is no G1
\* point, or has fewer than |messages| + 1 generators; when they do not
\* return InvalidKey, message i is multiplied by the generator in slot i + 1
C21_InvalidKeyOnMalformedPublicKey ==
    /\ SignCalled
       => /\ MalformedPublicKey(public_key, messages) => signature.err = "InvalidKey"
          /\ signature.err # "InvalidKey"
             => \A i \in 0 .. (Len(messages) - 1) :
                    message_generator(public_key, i)
                        = G1_from_compressed(public_key.slots[i + 2]).val
    /\ last.op = "verify_signature_safe"
       => /\ MalformedPublicKey(public_key, last.messages) => last.ret.err = "InvalidKey"
          /\ last.ret.err # "InvalidKey"
             => \A i \in 0 .. (Len(last.messages) - 1) :
                    message_generator(public_key, i)
                        = G1_from_compressed(public_key.slots[i + 2]).val

\* what the two functions do: InvalidKey when fewer than |messages| + 1 of
\* the slots decode, and otherwise message i is multiplied by the (i + 1)-th
\* slot that decodes, counted from 0
InvalidKeyOnTooFewDecodedSlots ==
    /\ SignCalled
       => (Len(ParseGenerators(public_key.slots)) < Len(messages) + 1
              => signature.err = "InvalidKey")
    /\ last.op = "verify_signature_safe"
       => (Len(ParseGenerators(public_key.slots)) < Len(last.messages) + 1
              => last.ret.err = "InvalidKey")
    /\ (SignCalled /\ InvalidSlots(public_key) = {} /\ signature.ok)
       => \A i \in 0 .. (Len(messages) - 1) :
              message_generator(public_key, i) = public_key.slots[i + 2]

-----------------------------------------------------------------------------
(* Secret-key parsing of sign, sign_delegation and split_secret_safe        *)

\* the call of sign in the signature specification
SignReturned == SignCalled /\ presentation.by = "none"

SplitSafeReturned == presentation.by = "split_secret_safe"

\* C22: for secret-key bytes that are not 32 bytes long or are not the
\* canonical encoding of a scalar, sign, sign_delegation and
\* split_secret_safe return Err(InvalidKey) and do not panic
C22_InvalidKeyOnBadSecretKey ==
    ~CanonicalSecretKey
    => /\ SignReturned => signature.err = "InvalidKey"
       /\ DelegationSigned => signature.err = "InvalidKey"
       /\ SplitSafeReturned => presentation.ret.err = "InvalidKey"

\* the same for sign and split_secret_safe alone
SignAndSplitInvalidKeyOnBadSecretKey ==
    ~CanonicalSecretKey
    => /\ SignReturned => signature.err = "InvalidKey"
       /\ SplitSafeReturned => presentation.ret.err = "InvalidKey"

-----------------------------------------------------------------------------
(* Reconstruction from an empty or repeated share list, checked under the   *)
(* recovery specification                                                   *)

\* the positions are none, or name one share twice
EmptyOrRepeated(positions) == positions = <<>> \/ ~DistinctPositions(positions)

\* C23: reconstruct_secret returns an error, and no secret, for an empty
\* share list and for a list with two shares of one index;
\* reconstruct_secret_safe returns InvalidKey when a share is not 33 bytes
\* long or its scalar is not canonical, and CryptoError for an empty or
\* repeated list of shares that all parse
C23_ReconstructRejectsBadShares ==
    /\ (last.op = "reconstruct_secret" /\ EmptyOrRepeated(last.positions))
       => ~last.ret.ok /\ last.ret.val = ZERO
    /\ last.op = "reconstruct_secret_safe"
       => /\ last.damage # "none" => last.ret = Err("InvalidKey", <<>>)
          /\ (last.damage = "none" /\ EmptyOrRepeated(last.positions))
             => last.ret = Err("CryptoError", <<>>)

\* witness: the third share is handed in twice to reconstruct_secret_safe
C23_RepeatedShare ==
    /\ last.op = "reconstruct_secret_safe"
    /\ last.damage = "none"
    /\ last.positions = <<2, 3, 2>>
    /\ last.ret = Err("CryptoError", <<>>)

-----------------------------------------------------------------------------
(* attestation.rs: verify_device_attestation                                *)

ANDROID_ATTESTATION_OID == "1.3.6.1.4.1.11129.2.1.17"

\* a DER certificate: whether X509Certificate::from_der parses it, its
\* extension OIDs, the words of its issuer string, its SPKI bytes, the key
\* it certifies and the key its signature was made with
Certificate(parses, oids, issuer, spki, key, signed_with) ==
    [parses |-> parses, oids |-> oids, issuer |-> issuer, spki |-> spki,
     key |-> key, signed_with |-> signed_with]

\* str::contains on an issuer string, for a whole word
contains(issuer, word) == \E i \in 1 .. Len(issuer) : issuer[i] = word

verify_device_attestation(chain_der) ==
    IF chain_der = <<>> THEN Err("Empty certificate chain", <<>>)
    ELSE
    LET leaf == chain_der[1]
        root == chain_der[Len(chain_der)]
    IN
    IF ~leaf.parses THEN Err("Failed to parse leaf cert", <<>>)
    ELSE IF ANDROID_ATTESTATION_OID \notin leaf.oids
    THEN Err("Production Security Violation", <<>>)
    ELSE IF ~root.parses THEN Err("Failed to parse root cert", <<>>)
    ELSE IF contains(root.issuer, "Google") \/ contains(root.issuer, "Apple")
    THEN Ok(leaf.spki)
    ELSE Err("Untrusted Root CA", <<>>)

-----------------------------------------------------------------------------
(* Attestation specification: a device hands in a certificate chain         *)

\* chains have at most MaxChain certificates
MaxChain == 3

\* certifying keys: 1 is the vendor root key, 2 an intermediate key, 3 a key
\* of somebody else
AttestationCertificates ==
    {Certificate(TRUE, {ANDROID_ATTESTATION_OID, "2.5.29.15"}, <<"Intermediate">>, <<8>>, 4, 2),
     Certificate(TRUE, {ANDROID_ATTESTATION_OID}, <<"Intermediate">>, <<9>>, 5, 3),
     Certificate(TRUE, {"2.5.29.15"}, <<"Intermediate">>, <<10>>, 6, 2),
     Certificate(FALSE, {}, <<>>, <<>>, 0, 0),
     Certificate(TRUE, {}, <<"Google", "Root">>, <<11>>, 2, 1),
     Certificate(TRUE, {}, <<"Google", "Root">>, <<12>>, 1, 1),
     Certificate(TRUE, {}, <<"Apple", "Root">>, <<13>>, 1, 1),
     Certificate(TRUE, {}, <<"Other", "Root">>, <<14>>, 3, 3),
     Certificate(TRUE, {ANDROID_ATTESTATION_OID}, <<"Google", "Root">>, <<15>>, 3, 3)}

CertificateChains == ListsUpTo(AttestationCertificates, MaxChain)

InitAttestation ==
    /\ harvester \in {h \in Harvesters : h.rng.seed = 0}
    /\ IdleIssuer
    /\ tags = NoTags
    /\ ent = NoEnt
    /\ NoHolder
    /\ NoMiner
    /\ NoThreads

VerifyDeviceAttestation ==
    /\ last.op = "none"
    /\ \E chain_der \in CertificateChains :
         last' = [op |-> "verify_device_attestation", chain_der |-> chain_der,
                  ret |-> verify_device_attestation(chain_der)]
    /\ UNCHANGED miner
    /\ UNCHANGED sched
    /\ UNCHANGED <<harvester, secret_key, public_key, messages, signature, tags, ent,
                   holder>>

NextAttestation == VerifyDeviceAttestation

SpecAttestation == InitAttestation /\ [][NextAttestation]_vars

\* every certificate of the chain parses and carries the signature of the
\* key that the next certificate certifies
SignatureValid(chain) ==
    /\ \A i \in 1 .. Len(chain) : chain[i].parses
    /\ \A i \in 1 .. (Len(chain) - 1) : chain[i].signed_with = chain[i + 1].key

TrustedVendor(issuer) == contains(issuer, "Google") \/ contains(issuer, "Apple")

AttestationCalled == last.op = "verify_device_attestation"

\* C24: verify_device_attestation returns the SPKI bytes of the leaf exactly
\* when the leaf carries the attestation OID, every certificate of the chain
\* is signed by the next one and the issuer of the root is Google or Apple;
\* otherwise it returns an error
C24_AttestationIffChainValid ==
    AttestationCalled
    => LET chain == last.chain_der
       IN  /\ last.ret.ok
              <=> /\ chain # <<>>
                  /\ SignatureValid(chain)
                  /\ ANDROID_ATTESTATION_OID \in chain[1].oids
                  /\ TrustedVendor(chain[Len(chain)].issuer)
           /\ last.ret.ok => last.ret.val = chain[1].spki

\* what the function decides on: the leaf and the root parse, the leaf has
\* the OID and the issuer string of the root contains a vendor name
AttestationIffLeafAndRootPass ==
    AttestationCalled
    => LET chain == last.chain_der
       IN  /\ last.ret.ok
              <=> /\ chain # <<>>
                  /\ chain[1].parses /\ chain[Len(chain)].parses
                  /\ ANDROID_ATTESTATION_OID \in chain[1].oids
                  /\ TrustedVendor(chain[Len(chain)].issuer)
           /\ last.ret.ok => last.ret.val = chain[1].spki

-----------------------------------------------------------------------------
(* Concurrent submitters: threads call submit_macro_data on one MinerEngine *)
(* and take its statements one at a time                                    *)

\* the threads are 1 .. MaxThreads
MaxThreads == 2
\* the threads make at most MaxThreadCalls calls between them
MaxThreadCalls == 4
\* the buffer lacks two distinct identities, or one, when the threads start
Prefilled == {K_ANONYMITY_THRESHOLD - 2, K_ANONYMITY_THRESHOLD - 1}

Threads == 1 .. MaxThreads

IdleThread == [pc |-> "idle"]

\* RwLock::write returns once no other guard is held, whoever asks
write_lock_always_granted(holder_thread) == TRUE

\* self.buffers.write(): the guard is granted when no thread holds one
write_lock_granted(holder_thread) == holder_thread = 0

\* the engine after n sequential submissions of distinct identities
RECURSIVE PrefilledEngine(_, _)
PrefilledEngine(category, n) ==
    IF n = 0 THEN MinerEngine_new(1)
    ELSE submit_macro_data(PrefilledEngine(category, n - 1), category,
                           SubmissionValue(n - 1), <<n - 1>>, StartTime, 0, 0).engine

PrefilledPoints(category, n) ==
    [i \in 1 .. n |-> MacroDataPoint(category, SubmissionValue(i - 1), StartTime,
                                     hash_identity(<<i - 1>>))]

put_buffer(eng, category, buffer) ==
    [eng EXCEPT !.buffers = [k \in DOMAIN eng.buffers \cup {category} |->
                                IF k = category THEN buffer ELSE eng.buffers[k]]]

InitMinerThreads ==
    /\ harvester \in {h \in Harvesters : h.rng.seed = 0}
    /\ IdleIssuer
    /\ NoHolder
    /\ tags = NoTags
    /\ ent = NoEnt
    /\ clock = StartTime
    /\ since = EmptyMap
    /\ \E n \in Prefilled :
         /\ engine = PrefilledEngine("GENDER", n)
         /\ submits = n
         /\ submitted = PrefilledPoints("GENDER", n)
    /\ released = <<>>
    /\ drains = <<>>
    /\ threads = [t \in Threads |-> IdleThread]
    /\ lock = 0
    /\ log = <<>>

\* hash_identity and current_timestamp, before the lock is asked for
BeginSubmit(t) ==
    /\ threads[t].pc = "idle"
    /\ submits < K_ANONYMITY_THRESHOLD - 2 + MaxThreadCalls
    /\ \E identity \in {<<submits>>, <<0>>} :
         threads' = [threads EXCEPT ![t] =
                        [pc |-> "hashed", category |-> "GENDER",
                         data_point |-> MacroDataPoint("GENDER", SubmissionValue(submits),
                                                       clock, hash_identity(identity))]]
    /\ submits' = submits + 1
    /\ UNCHANGED <<harvester, secret_key, public_key, messages, signature, last, tags,
                   ent, holder, engine, clock, since, submitted, released, drains,
                   lock, log>>

\* let mut buffers = self.buffers.write()
AcquireBuffers(t) ==
    /\ threads[t].pc = "hashed"
    /\ write_lock_granted(lock)
    /\ lock' = t
    /\ threads' = [threads EXCEPT ![t].pc = "locked"]
    /\ UNCHANGED <<harvester, secret_key, public_key, messages, signature, last, tags,
                   ent, holder, log>>
    /\ UNCHANGED miner

\* buffer.add_data_point(data_point)
AddDataPoint(t) ==
    /\ threads[t].pc = "locked"
    /\ engine' = put_buffer(engine, threads[t].category,
                            add_data_point(BufferOf(threads[t].category),
                                           threads[t].data_point))
    /\ submitted' = Append(submitted, threads[t].data_point)
    /\ threads' = [threads EXCEPT ![t].pc = "added"]
    /\ UNCHANGED <<harvester, secret_key, public_key, messages, signature, last, tags,
                   ent, holder, clock, since, submits, released, drains, lock, log>>

\* if buffer.unique_count() >= threshold; the else arm returns Ok(None) and
\* drops the guard
CheckThreshold(t) ==
    /\ threads[t].pc = "added"
    /\ IF unique_count(BufferOf(threads[t].category))
             >= get_dynamic_threshold(threads[t].category)
       THEN /\ threads' = [threads EXCEPT ![t].pc = "ready"]
            /\ UNCHANGED <<last, lock>>
       ELSE /\ threads' = [threads EXCEPT ![t] = IdleThread]
            /\ last' = [op |-> "submit_macro_data", thread |-> t, ret |-> Ok(None)]
            /\ lock' = 0
    /\ UNCHANGED <<harvester, secret_key, public_key, messages, signature, tags,
                   ent, holder, log>>
    /\ UNCHANGED miner

\* let ready_data = buffer.flush()
FlushBuffer(t) ==
    /\ threads[t].pc = "ready"
    /\ \E flushed \in {flush(BufferOf(threads[t].category))} :
         /\ engine' = put_buffer(engine, threads[t].category, flushed.buffer)
         /\ threads' = [threads EXCEPT ![t] =
                            [pc |-> "flushed", category |-> threads[t].category,
                             data_point |-> threads[t].data_point,
                             ready_data |-> flushed.result]]
    /\ drains' = Append(drains, [category |-> threads[t].category,
                                 ordinal |-> PointOrdinal(threads[t].data_point)])
    /\ UNCHANGED <<harvester, secret_key, public_key, messages, signature, last, tags,
                   ent, holder, clock, since, submits, submitted, released, lock, log>>

\* apply_differential_privacy, store_in_vault, return; the guard is dropped
ReleaseBatch(t) ==
    /\ threads[t].pc = "flushed"
    /\ \E seed \in 0 .. MaxNoiseSeed, fail_at \in {0, 1} :
       \E anonymized \in {apply_differential_privacy(engine.epsilon,
                                                     threads[t].ready_data, seed)} :
       \E stored \in {store_in_vault(engine.vault, anonymized.val, fail_at)} :
         /\ engine' = [engine EXCEPT !.vault = stored.vault]
         /\ released' = IF stored.ret.ok THEN Append(released, anonymized.val)
                        ELSE released
         /\ last' = [op |-> "submit_macro_data", thread |-> t,
                     ret |-> IF stored.ret.ok THEN Ok(Some(anonymized.val))
                             ELSE Err(stored.ret.err, None)]
    /\ threads' = [threads EXCEPT ![t] = IdleThread]
    /\ lock' = 0
    /\ UNCHANGED <<harvester, secret_key, public_key, messages, signature, tags,
                   ent, holder, clock, since, submits, submitted, drains, log>>

NextMinerThreads ==
    \E t \in Threads :
        \/ BeginSubmit(t)
        \/ AcquireBuffers(t)
        \/ AddDataPoint(t)
        \/ CheckThreshold(t)
        \/ FlushBuffer(t)
        \/ ReleaseBatch(t)

SpecMinerThreads == InitMinerThreads /\ [][NextMinerThreads]_vars

\* the points of all released batches, as (batch, position) pairs
ReleasedPositions == {<<i, k>> : i \in 1 .. Len(released), k \in 1 .. MaxSubmits}
                        \cap {p \in (1 .. Len(released)) \X (1 .. MaxSubmits) :
                                 p[2] <= Len(released[p[1]])}

\* the identity hash a released point was submitted with
SubmittedIdentity(point) ==
    (CHOOSE s \in {submitted[i] : i \in 1 .. Len(submitted)} :
        PointOrdinal(s) = PointOrdinal(point)).identity_hash

BatchIdentities(batch) == {SubmittedIdentity(batch[k]) : k \in 1 .. Len(batch)}

\* C25: with concurrent submit_macro_data calls, the threshold check and the
\* drain are one atomic step: the count checked still holds when the buffer
\* is drained, every submitted point is in at most one released batch, the
\* buffer still is empty when the draining call stores its batch, and every
\* released batch has at least the threshold of distinct identities
C25_CheckAndDrainAtomic ==
    /\ \A t \in Threads :
          /\ threads[t].pc = "ready"
             => unique_count(BufferOf(threads[t].category))
                   >= get_dynamic_threshold(threads[t].category)
          /\ threads[t].pc = "flushed"
             => BufferOf(threads[t].category).data_points = <<>>
    /\ \A p, q \in ReleasedPositions :
          PointOrdinal(released[p[1]][p[2]]) = PointOrdinal(released[q[1]][q[2]]) => p = q
    /\ \A i \in 1 .. Len(released) :
          Cardinality(BatchIdentities(released[i])) >= get_dynamic_threshold("GENDER")

\* witness: a batch of 16 points was released while the other thread waited
\* for the lock; its point is buffered after the release
C25_ReleaseWhileWaiting ==
    /\ Len(released) = 1
    /\ Len(released[1]) = 16
    /\ Len(BufferOf("GENDER").data_points) = 1
    /\ \A t \in Threads : threads[t].pc = "idle"

-----------------------------------------------------------------------------
(* Concurrent entropy calls: threads call get_entropy, get_hardware_secret  *)
(* and get_level4_entropy and take their statements one at a time           *)

\* the threads make at most MaxHarvesterCalls calls between them
MaxHarvesterCalls == 2

\* Mutex::lock returns whoever holds the mutex
mutex_always_granted(holder_thread) == TRUE

\* HARVESTER.lock(): the guard is granted when no thread holds it
mutex_granted(holder_thread) == holder_thread = 0

\* self.rng.fill_bytes(&mut buf) for the 64 bytes of buf
fill_bytes(h) ==
    [harvester |-> [h EXCEPT !.rng.pos = @ + 2],
     buf |-> <<ChaCha20Block(h.rng.seed, h.rng.pos),
               ChaCha20Block(h.rng.seed, h.rng.pos + 1)>>]

\* the HKDF step of derive_secret, after its harvest
hkdf_expand(h, info) == Hkdf_Sha256(h.avalanche_noise_pool[1], h.puf_root, info)

\* SHA-256 of the label and the pool, the freshness claim
freshness_claim_of(h) == Sha256(Level4Label \o h.avalanche_noise_pool)

HarvesterCalls ==
    {[op |-> "get_entropy", context |-> <<>>],
     [op |-> "get_level4_entropy", context |-> <<>>]}
        \cup {[op |-> "get_hardware_secret", context |-> c] : c \in Contexts}

InitEntThreads ==
    /\ harvester \in {h \in Harvesters : h.rng.seed = 0}
    /\ IdleIssuer
    /\ NoHolder
    /\ NoMiner
    /\ tags = NoTags
    /\ ent = NoEnt
    /\ threads = [t \in Threads |-> IdleThread]
    /\ lock = 0
    /\ log = <<>>

\* HARVESTER.lock().unwrap() at the head of one of the three functions
LockHarvester(t) ==
    /\ threads[t].pc = "idle"
    /\ ent.calls < MaxHarvesterCalls
    /\ mutex_granted(lock)
    /\ lock' = t
    /\ ent' = [calls |-> ent.calls + 1]
    /\ \E call \in HarvesterCalls :
         threads' = [threads EXCEPT ![t] =
                        [pc |-> IF call.op = "get_level4_entropy"
                                THEN "harvest" ELSE "get_entropy",
                         op |-> call.op, context |-> call.context,
                         call |-> ent.calls + 1,
                         entered |-> harvester, jitters |-> <<>>,
                         harvested |-> harvester, buf |-> <<>>]]
    /\ UNCHANGED miner
    /\ UNCHANGED <<secret_key, public_key, messages, signature, last, tags, holder,
                   harvester, log>>

\* self.harvest(): the first statement of get_level4_entropy, and of
\* EntropyHarvester::get_entropy and derive_secret
Harvest(t) ==
    /\ threads[t].pc \in {"harvest", "get_entropy"}
    /\ \E jitter \in Jitters :
       \E h \in {harvest(harvester, jitter)} :
         /\ harvester' = h
         /\ threads' = [threads EXCEPT
                           ![t].pc = IF @ = "harvest" THEN "get_entropy" ELSE "draw",
                           ![t].jitters = Append(@, jitter),
                           ![t].harvested = h]
    /\ log' = Append(log, [call |-> threads[t].call, step |-> "harvest"])
    /\ UNCHANGED miner
    /\ UNCHANGED <<secret_key, public_key, messages, signature, last, tags, ent, holder,
                   lock>>

\* get_entropy: fill_bytes, return; the guard is dropped
DrawEntropy(t) ==
    /\ threads[t].pc = "draw"
    /\ threads[t].op = "get_entropy"
    /\ \E g \in {fill_bytes(harvester)} :
         /\ harvester' = g.harvester
         /\ last' = [op |-> "get_entropy", entered |-> threads[t].entered,
                     jitters |-> threads[t].jitters, left |-> g.harvester,
                     ret |-> g.buf]
    /\ log' = Append(log, [call |-> threads[t].call, step |-> "draw"])
    /\ threads' = [threads EXCEPT ![t] = IdleThread]
    /\ lock' = 0
    /\ UNCHANGED miner
    /\ UNCHANGED <<secret_key, public_key, messages, signature, tags, ent, holder>>

\* get_hardware_secret: the HKDF of derive_secret, return; the guard is dropped
DeriveSecret(t) ==
    /\ threads[t].pc = "draw"
    /\ threads[t].op = "get_hardware_secret"
    /\ last' = [op |-> "get_hardware_secret", entered |-> threads[t].entered,
                jitters |-> threads[t].jitters, context |-> threads[t].context,
                left |-> harvester,
                ret |-> hkdf_expand(harvester, threads[t].context)]
    /\ log' = Append(log, [call |-> threads[t].call, step |-> "draw"])
    /\ threads' = [threads EXCEPT ![t] = IdleThread]
    /\ lock' = 0
    /\ UNCHANGED miner
    /\ UNCHANGED <<secret_key, public_key, messages, signature, tags, ent, holder,
                   harvester>>

\* get_level4_entropy: let entropy = h.get_entropy(), after its harvest
DrawLevel4(t) ==
    /\ threads[t].pc = "draw"
    /\ threads[t].op = "get_level4_entropy"
    /\ \E g \in {fill_bytes(harvester)} :
         /\ harvester' = g.harvester
         /\ threads' = [threads EXCEPT ![t].pc = "claim", ![t].buf = g.buf]
    /\ log' = Append(log, [call |-> threads[t].call, step |-> "draw"])
    /\ UNCHANGED miner
    /\ UNCHANGED <<secret_key, public_key, messages, signature, last, tags, ent, holder,
                   lock>>

\* get_level4_entropy: the claim over the pool, return; the guard is dropped
ClaimFreshness(t) ==
    /\ threads[t].pc = "claim"
    /\ last' = [op |-> "get_level4_entropy", entered |-> threads[t].entered,
                jitters |-> threads[t].jitters, harvested |-> threads[t].harvested,
                left |-> harvester,
                ret |-> [claim |-> freshness_claim_of(harvester),
                         entropy |-> threads[t].buf]]
    /\ log' = Append(log, [call |-> threads[t].call, step |-> "draw"])
    /\ threads' = [threads EXCEPT ![t] = IdleThread]
    /\ lock' = 0
    /\ UNCHANGED miner
    /\ UNCHANGED <<secret_key, public_key, messages, signature, tags, ent, holder,
                   harvester>>

NextEntThreads ==
    \E t \in Threads :
        \/ LockHarvester(t)
        \/ Harvest(t)
        \/ DrawEntropy(t)
        \/ DeriveSecret(t)
        \/ DrawLevel4(t)
        \/ ClaimFreshness(t)

SpecEntThreads == InitEntThreads /\ [][NextEntThreads]_vars

\* the harvests and draws of one call are next to each other in the log
CallsContiguous ==
    \A i, k \in 1 .. Len(log) :
        (i < k /\ log[i].call = log[k].call)
        => \A j \in i .. k : log[j].call = log[i].call

\* the call that returned last did what the function does when run alone on
\* the harvester it found
ReturnedAsAlone ==
    /\ last.op = "get_entropy"
       => LET g == get_entropy(last.entered, last.jitters[1])
          IN  last.ret = g.buf /\ last.left = g.harvester
    /\ last.op = "get_hardware_secret"
       => LET d == get_hardware_secret(last.entered, last.context, last.jitters[1])
          IN  last.ret = d.okm /\ last.left = d.harvester
    /\ last.op = "get_level4_entropy"
       => LET g == get_level4_entropy(last.entered, last.jitters[1], last.jitters[2])
          IN  /\ last.ret = [claim |-> g.claim, entropy |-> g.entropy]
              /\ last.left = g.harvester

\* C26: with concurrent get_entropy, get_hardware_secret and
\* get_level4_entropy calls, a call makes its harvest and its draw while it
\* holds the harvester lock, no harvest or draw of another call falls
\* between them, and the claim get_level4_entropy returns is the hash of the
\* pool as the harvest before the returned entropy draw left it
C26_HarvestAndDrawUnderLock ==
    /\ \A t \in Threads : threads[t].pc # "idle" => lock = t
    /\ CallsContiguous
    /\ ReturnedAsAlone
    /\ last.op = "get_level4_entropy"
       => /\ last.ret.claim = Sha256(Level4Label \o last.harvested.avalanche_noise_pool)
          /\ last.ret.entropy = fill_bytes(last.harvested).buf

\* witness: get_level4_entropy returned after another call had returned
C26_Level4AfterAnotherCall ==
    /\ last.op = "get_level4_entropy"
    /\ Len(log) >= 6
    /\ log[1].call # log[Len(log)].call
    /\ last.jitters = <<0, 1>>

-----------------------------------------------------------------------------
(* The identity counts of the category buffers, checked under the miner     *)
(* specification                                                            *)

\* the identity hashes of the points a buffer holds
BufferedIdentities(buffer) ==
    {buffer.data_points[i].identity_hash : i \in 1 .. Len(buffer.data_points)}

\* the sum of the counts stored for the identity hashes in keys
RECURSIVE SumCounts(_, _)
SumCounts(counts, keys) ==
    IF keys = {} THEN 0
    ELSE LET k == CHOOSE x \in keys : TRUE
         IN  counts[k] + SumCounts(counts, keys \ {k})

\* C27: in every category buffer the keys of unique_identities are the
\* identity hashes of the buffered points, every count is at least 1, the
\* counts sum to the number of buffered points, and unique_count is the
\* number of distinct identity hashes buffered
C27_IdentityCountsMatchBuffer ==
    \A category \in DOMAIN engine.buffers :
        LET buffer == engine.buffers[category]
            counts == buffer.unique_identities
        IN  /\ DOMAIN counts = BufferedIdentities(buffer)
            /\ \A h \in DOMAIN counts : counts[h] >= 1
            /\ SumCounts(counts, DOMAIN counts) = Len(buffer.data_points)
            /\ unique_count(buffer) = Cardinality(BufferedIdentities(buffer))

\* witness: after a release, a buffer holds two points of one identity and
\* one of another
C27_RepeatedIdentityAfterRelease ==
    /\ submits > K_ANONYMITY_THRESHOLD
    /\ "GENDER" \in DOMAIN engine.buffers
    /\ Len(engine.buffers["GENDER"].data_points) = 3
    /\ unique_count(engine.buffers["GENDER"]) = 2

-----------------------------------------------------------------------------
(* The content of a released batch, checked under the vault specification   *)

\* the last call was submit_macro_data and returned a batch
BatchReturned == last.op = "submit_macro_data" /\ last.ret.ok /\ last.ret.val.some

\* the ordinal of the call before the last one that flushed the buffer of
\* category, -1 when there was none
PreviousDrain(category) ==
    LET earlier == {drains[i].ordinal : i \in {j \in 1 .. (Len(drains) - 1) :
                                                drains[j].category = category}}
    IN  IF earlier = {} THEN -1 ELSE CHOOSE o \in earlier : \A x \in earlier : x <= o

\* the ordinals of the submissions to category after ordinal from, up to
\* ordinal to, in call order
RECURSIVE SubmittedBetween(_, _, _)
SubmittedBetween(category, from, to) ==
    IF from >= to THEN <<>>
    ELSE (IF submitted[from + 2].category = category THEN <<from + 1>> ELSE <<>>)
            \o SubmittedBetween(category, from + 1, to)

-----------------------------------------------------------------------------
(* The buffer after a failed release, checked under the miner specification *)

\* the buffer of the last call's category with the submitted point added to
\* what it held before the call
BufferWithSubmitted ==
    add_data_point(last.before,
                   MacroDataPoint(last.category, ReportedValue(last.identity), clock,
                                  hash_identity(last.identity)))

\* the buffer holds what it held before the last call and the point submitted
BufferKept ==
    LET buffer == BufferOf(last.category)
    IN  /\ buffer.unique_identities = BufferWithSubmitted.unique_identities
        /\ Len(buffer.data_points) = Len(last.before.data_points) + 1
        /\ SubSeq(buffer.data_points, 1, Len(last.before.data_points))
              = last.before.data_points

\* C30: when submit_macro_data returns an error, the points that were in the
\* buffer of the category and the point just submitted are still buffered,
\* with their identity counts
C30_ErrorKeepsBuffer ==
    (last.op = "submit_macro_data" /\ ~last.ret.ok) => BufferKept

\* the buffer is kept by the calls that return Ok(None)
BufferKeptWhenNotDrained ==
    (last.op = "submit_macro_data" /\ last.ret = Ok(None)) => BufferKept

-----------------------------------------------------------------------------
(* Proofs made without a signature, checked under the proof specification    *)

\* the verified proof was computed from public values alone
FromPublicValues == VerifiedProof /\ presentation.by = "public values"

\* C29: verify_proof_safe returns Ok(true) only for proofs derived from a
\* valid signature: a proof built from the public key, the claimed revealed
\* messages, nonce, alias_index and freshness_claim alone is not accepted,
\* nor is any proof whose A' is the identity of G1
C29_NoProofFromPublicValues ==
    /\ FromPublicValues => ~IsOkTrue(last.ret)
    /\ (VerifiedProof /\ last.proof.a_prime = G1_to_compressed(G1_identity))
       => ~IsOkTrue(last.ret)

\* what the verifier does bind: a proof made from public values is accepted
\* only with the nonce, alias_index and freshness_claim its challenge was
\* hashed from
PublicValuesProofBoundToChallenge ==
    (FromPublicValues /\ IsOkTrue(last.ret)) => ~ChallengeDiffers(last.proof, last.args)

=============================================================================
